---- MODULE Spec2Model ----
(***************************************************************************)
(* Model of the registry-mcp library: registry detection, the registry    *)
(* search clients and their aggregator, the fetch-backed inspectors, the  *)
(* CDN import generator and the package-manager command builders.         *)
(*                                                                         *)
(* Text that the code inspects or concatenates (package names, queries,   *)
(* versions, URLs, messages) is a sequence of one-character strings, so    *)
(* that startsWith / includes / split / substring / encodeURIComponent are *)
(* computed character by character.  Enumerated tags (registry kinds, CDN  *)
(* providers, module formats) are TLA+ strings.  An optional argument is a *)
(* sequence of length at most one: << >> is undefined, <<v>> is v.  An     *)
(* optional registry kind is the tag itself, "undefined" when absent.      *)
(***************************************************************************)
EXTENDS Integers, Sequences, FiniteSets, TLC

\* ------------------------------------------------------------------ bounds

\* longest free part of a package name handed to detectRegistry
MaxNameLen == 3
\* longest free part of a package name handed to the other operations
MaxPkgLen == 2
\* most items in an upstream search response
MaxItems == 1
\* most entries in a dependency mapping of an upstream document
MaxDeps == 1
\* time passes in steps of TickMs milliseconds, up to MaxElapsed
TickMs == 5000
MaxElapsed == 20000

\* ------------------------------------------------------- JavaScript values

Undefined == << >>
Some(v) == <<v>>
IsDefined(o) == o # << >>
\* JavaScript truthiness of an optional string: undefined and "" are falsy
Truthy(o) == o # << >> /\ o[1] # << >>
\* a || b on optional strings
OrElse(o, d) == IF Truthy(o) THEN o[1] ELSE d
\* list || [] on an optional array
OrEmptyList(o) == IF o # << >> THEN o[1] ELSE << >>

StartsWith(s, p) == Len(s) >= Len(p) /\ SubSeq(s, 1, Len(p)) = p
Includes(s, p) ==
    \E i \in 1..(Len(s) - Len(p) + 1) : SubSeq(s, i, i + Len(p) - 1) = p
\* s.substring(n): the text from 0-based index n on
Substring(s, n) == SubSeq(s, n + 1, Len(s))
\* index of the first occurrence of character c in s, 0 when there is none
IndexOfChar(s, c) ==
    IF \E i \in 1..Len(s) : s[i] = c
    THEN CHOOSE i \in 1..Len(s) : s[i] = c /\ \A j \in 1..(i - 1) : s[j] # c
    ELSE 0
\* s.split(c) for a one-character separator
RECURSIVE Split(_, _)
Split(s, c) ==
    LET i == IndexOfChar(s, c)
    IN  IF i = 0 THEN <<s>>
        ELSE <<SubSeq(s, 1, i - 1)>> \o Split(SubSeq(s, i + 1, Len(s)), c)
\* s.replace(c, ""): the first occurrence of character c removed
ReplaceFirst(s, c) ==
    LET i == IndexOfChar(s, c)
    IN  IF i = 0 THEN s ELSE SubSeq(s, 1, i - 1) \o SubSeq(s, i + 1, Len(s))
\* the decimal digits of a natural number, as `${n}` renders it
RECURSIVE NumToString(_)
NumToString(n) ==
    LET Digit(d) == <<"0", "1", "2", "3", "4", "5", "6", "7", "8", "9">>[d + 1]
    IN  IF n < 10 THEN <<Digit(n)>>
        ELSE NumToString(n \div 10) \o <<Digit(n % 10)>>
\* encodeURIComponent: letters, digits and - _ . ! ~ * ' ( ) pass, every
\* other character of the model's alphabet becomes its %XX escape
RECURSIVE encodeURIComponent(_)
encodeURIComponent(s) ==
    LET EncodeChar(c) ==
            CASE c = "@" -> <<"%", "4", "0">>
              [] c = "/" -> <<"%", "2", "F">>
              [] c = ":" -> <<"%", "3", "A">>
              [] c = " " -> <<"%", "2", "0">>
              [] OTHER -> <<c>>
    IN  IF s = << >> THEN << >>
        ELSE EncodeChar(Head(s)) \o encodeURIComponent(Tail(s))

\* ------------------------------------------------------------- detector.ts

\* the string literals of detector.ts
Det ==
    \* "@"
    [ at |-> <<"@">>,
    \* "/"
      slash |-> <<"/">>,
    \* "deno.land"
      denoLand |-> <<"d","e","n","o",".","l","a","n","d">>,
    \* "nest.land"
      nestLand |-> <<"n","e","s","t",".","l","a","n","d">>,
    \* "https://"
      https |-> <<"h","t","t","p","s",":","/","/">>,
    \* "http://"
      http |-> <<"h","t","t","p",":","/","/">>,
    \* "jsr:"
      jsrColon |-> <<"j","s","r",":">>,
    \* "npm:"
      npmColon |-> <<"n","p","m",":">>,
    \* "https://registry.npmjs.org/-/v1/search"
      npmSearchUrl |->
          <<"h","t","t","p","s",":","/","/","r","e","g","i","s","t","r","y",".",
          "n","p","m","j","s",".","o","r","g","/","-","/","v","1","/","s","e",
          "a","r","c","h">>,
    \* "https://jsr.io/api/packages"
      jsrSearchUrl |->
          <<"h","t","t","p","s",":","/","/","j","s","r",".","i","o","/","a","p",
          "i","/","p","a","c","k","a","g","e","s">>,
    \* "https://api.deno.com/v2/modules"
      denoSearchUrl |->
          <<"h","t","t","p","s",":","/","/","a","p","i",".","d","e","n","o",".",
          "c","o","m","/","v","2","/","m","o","d","u","l","e","s">>,
    \* "https://www.npmjs.com/package/"
      npmPackageUrl |->
          <<"h","t","t","p","s",":","/","/","w","w","w",".","n","p","m","j","s",
          ".","c","o","m","/","p","a","c","k","a","g","e","/">>,
    \* "https://jsr.io/"
      jsrPackageUrl |->
          <<"h","t","t","p","s",":","/","/","j","s","r",".","i","o","/">>,
    \* "https://deno.land/x/"
      denoPackageUrl |->
          <<"h","t","t","p","s",":","/","/","d","e","n","o",".","l","a","n","d",
          "/","x","/">>,
    \* "npm"
      regNpm |-> <<"n","p","m">>,
    \* "jsr"
      regJsr |-> <<"j","s","r">>,
    \* "deno"
      regDeno |-> <<"d","e","n","o">>,
    \* "unknown"
      regUnknown |-> <<"u","n","k","n","o","w","n">>,
    \* "undefined"
      undefined |-> <<"u","n","d","e","f","i","n","e","d">> ]

RegistryType == {"npm", "jsr", "deno", "unknown"}

\* a variant whose first rule does not count the parts of a scoped name
detectRegistryAnyScoped(packageName) ==
    IF StartsWith(packageName, Det.at) /\ Includes(packageName, Det.slash)
    THEN "jsr"
    ELSE IF \/ Includes(packageName, Det.denoLand)
            \/ Includes(packageName, Det.nestLand)
            \/ StartsWith(packageName, Det.https)
            \/ StartsWith(packageName, Det.http)
    THEN "deno"
    ELSE IF StartsWith(packageName, Det.jsrColon) THEN "jsr"
    ELSE IF StartsWith(packageName, Det.npmColon) THEN "npm"
    ELSE "npm"

detectRegistry(packageName) ==
    IF /\ StartsWith(packageName, Det.at)
       /\ Includes(packageName, Det.slash)
       /\ LET parts == Split(packageName, "/")
          IN  Len(parts) = 2 /\ StartsWith(parts[1], Det.at)
    THEN "jsr"
    ELSE IF \/ Includes(packageName, Det.denoLand)
            \/ Includes(packageName, Det.nestLand)
            \/ StartsWith(packageName, Det.https)
            \/ StartsWith(packageName, Det.http)
    THEN "deno"
    ELSE IF StartsWith(packageName, Det.jsrColon) THEN "jsr"
    ELSE IF StartsWith(packageName, Det.npmColon) THEN "npm"
    ELSE "npm"

\* registry || detectRegistry(packageName)
ResolveRegistry(registry, packageName) ==
    IF registry # "undefined" THEN registry ELSE detectRegistry(packageName)

\* getRegistryInfo(registry).searchUrl
searchUrl(registry) ==
    CASE registry = "npm" -> Det.npmSearchUrl
      [] registry = "jsr" -> Det.jsrSearchUrl
      [] registry = "deno" -> Det.denoSearchUrl
      [] OTHER -> << >>

\* getRegistryInfo(registry).packageUrl(name)
packageUrl(registry, name) ==
    CASE registry = "npm" -> Det.npmPackageUrl \o name
      [] registry = "jsr" -> Det.jsrPackageUrl \o name
      [] registry = "deno" -> Det.denoPackageUrl \o name
      [] OTHER -> << >>

\* `${reg}`: a registry kind rendered into a message
RegText(reg) ==
    CASE reg = "npm" -> Det.regNpm
      [] reg = "jsr" -> Det.regJsr
      [] reg = "deno" -> Det.regDeno
      [] reg = "unknown" -> Det.regUnknown
      [] reg = "yarn" -> <<"y", "a", "r", "n">>

\* ------------------------------------------------------ fetch and responses

\* What a settled fetch hands back.  kind "reject": the promise rejected with
\* an Error whose message is text (errName its name).  kind "status": a
\* Response with the given ok flag and statusText; body is what
\* response.json() will produce.
Response(kind, ok, text, errName, body) ==
    [kind |-> kind, ok |-> ok, text |-> text, errName |-> errName, body |-> body]

NoBody == [kind |-> "none"]
\* response.json() rejects: the body is not JSON
SyntaxErrorBody == [kind |-> "syntaxError"]
\* the body is the JSON value null
NullBody == [kind |-> "null"]

\* the messages and status texts a fetch can produce
Net ==
    \* "error sending request"
    [ networkError |->
          <<"e","r","r","o","r"," ","s","e","n","d","i","n","g"," ","r","e","q",
          "u","e","s","t">>,
    \* "Unexpected token < in JSON"
      syntaxError |->
          <<"U","n","e","x","p","e","c","t","e","d"," ","t","o","k","e","n"," ",
          "<"," ","i","n"," ","J","S","O","N">>,
    \* "Cannot read properties of undefined"
      typeError |->
          <<"C","a","n","n","o","t"," ","r","e","a","d"," ","p","r","o","p","e",
          "r","t","i","e","s"," ","o","f"," ","u","n","d","e","f","i","n","e",
          "d">>,
    \* "Not Found"
      statusNotFound |-> <<"N","o","t"," ","F","o","u","n","d">>,
    \* "The signal has been aborted"
      aborted |->
          <<"T","h","e"," ","s","i","g","n","a","l"," ","h","a","s"," ","b","e",
          "e","n"," ","a","b","o","r","t","e","d">> ]

StatusTexts == {Net.statusNotFound, << >>}
RejectMessages == {Net.networkError}

\* an outcome of an async function: fulfilled with a value or rejected
Fulfilled(v) == [state |-> "fulfilled", value |-> v]
Rejected(msg) == [state |-> "rejected", value |-> [thrown |-> msg]]
Pending == [state |-> "pending", value |-> [none |-> TRUE]]

\* ---------------------------------------------------------------- search.ts

\* the string literals of search.ts
Sch ==
    \* "?text="
    [ textParam |-> <<"?","t","e","x","t","=">>,
    \* "&size="
      sizeParam |-> <<"&","s","i","z","e","=">>,
    \* "?q="
      qParam |-> <<"?","q","=">>,
    \* "?query="
      queryParam |-> <<"?","q","u","e","r","y","=">>,
    \* "&limit="
      limitParam |-> <<"&","l","i","m","i","t","=">>,
    \* "npm search failed: "
      npmSearchFailed |->
          <<"n","p","m"," ","s","e","a","r","c","h"," ","f","a","i","l","e","d",
          ":"," ">>,
    \* "JSR search failed: "
      jsrSearchFailed |->
          <<"J","S","R"," ","s","e","a","r","c","h"," ","f","a","i","l","e","d",
          ":"," ">>,
    \* "Deno search failed: "
      denoSearchFailed |->
          <<"D","e","n","o"," ","s","e","a","r","c","h"," ","f","a","i","l","e",
          "d",":"," ">> ]

\* default value of the limit parameter of every search function
DefaultLimit == 20
\* limit = 20 as a default parameter: undefined takes the default
LimitOrDefault(limit) == IF IsDefined(limit) THEN limit[1] ELSE DefaultLimit

\* A search result as the clients build it; total and error are optional keys
SearchResult(query, registry, packages, total, error) ==
    [query |-> query, registry |-> registry, packages |-> packages,
     total |-> total, error |-> error]

\* xs.map(f) throws when an element is undefined/null and f reads a field of it
HasBadItem(list) == \E i \in 1..Len(list) : ~IsDefined(list[i])

\* the body of a catch block that returns the error result of searchNpm
searchNpmCatch(query, msg) ==
    Fulfilled(SearchResult(query, "npm", << >>, Undefined, Some(msg)))
\* searchNpm's request
searchNpmUrl(query, limit) ==
    searchUrl("npm") \o Sch.textParam \o encodeURIComponent(query)
        \o Sch.sizeParam \o NumToString(limit)
\* searchNpm's outcome once its fetch has settled with resp
searchNpm(query, limit, resp) ==
    IF resp.kind = "reject" THEN searchNpmCatch(query, resp.text)
    ELSE IF ~resp.ok THEN searchNpmCatch(query, Sch.npmSearchFailed \o resp.text)
    ELSE IF resp.body.kind = "syntaxError" THEN searchNpmCatch(query, Net.syntaxError)
    ELSE IF resp.body.kind = "null" THEN searchNpmCatch(query, Net.typeError)
    ELSE LET objects == OrEmptyList(resp.body.list)
         IN  IF HasBadItem(objects) THEN searchNpmCatch(query, Net.typeError)
             ELSE Fulfilled(SearchResult(query, "npm",
                    [i \in 1..Len(objects) |->
                        LET pkg == objects[i][1]
                        IN  [name |-> pkg.name, version |-> pkg.version,
                             registry |-> "npm",
                             registryUrl |-> packageUrl("npm", pkg.name)]],
                    resp.body.total, Undefined))

\* a variant whose error result carries the npm tag
searchJsrCatchNpmTag(query, msg) ==
    Fulfilled(SearchResult(query, "npm", << >>, Undefined, Some(msg)))
searchJsrCatch(query, msg) ==
    Fulfilled(SearchResult(query, "jsr", << >>, Undefined, Some(msg)))
searchJsrUrl(query, limit) ==
    Det.jsrSearchUrl \o Sch.qParam \o encodeURIComponent(query)
        \o Sch.limitParam \o NumToString(limit)
searchJsr(query, limit, resp) ==
    IF resp.kind = "reject" THEN searchJsrCatch(query, resp.text)
    ELSE IF ~resp.ok THEN searchJsrCatch(query, Sch.jsrSearchFailed \o resp.text)
    ELSE IF resp.body.kind = "syntaxError" THEN searchJsrCatch(query, Net.syntaxError)
    ELSE IF resp.body.kind = "null" THEN searchJsrCatch(query, Net.typeError)
    ELSE LET items == OrEmptyList(resp.body.list)
         IN  IF HasBadItem(items) THEN searchJsrCatch(query, Net.typeError)
             ELSE Fulfilled(SearchResult(query, "jsr",
                    [i \in 1..Len(items) |->
                        LET pkg == items[i][1]
                            fullName == IF pkg.scope # << >>
                                        THEN Det.at \o pkg.scope \o Det.slash \o pkg.name
                                        ELSE pkg.name
                        IN  [name |-> fullName, version |-> pkg.version,
                             registry |-> "jsr",
                             registryUrl |-> packageUrl("jsr", fullName)]],
                    resp.body.total, Undefined))

\* a variant whose catch block rethrows
searchDenoCatchRethrows(query, msg) == Rejected(msg)
searchDenoCatch(query, msg) ==
    Fulfilled(SearchResult(query, "deno", << >>, Undefined, Some(msg)))
searchDenoUrl(query, limit) ==
    Det.denoSearchUrl \o Sch.queryParam \o encodeURIComponent(query)
        \o Sch.limitParam \o NumToString(limit)
searchDeno(query, limit, resp) ==
    IF resp.kind = "reject" THEN searchDenoCatch(query, resp.text)
    ELSE IF ~resp.ok THEN searchDenoCatch(query, Sch.denoSearchFailed \o resp.text)
    ELSE IF resp.body.kind = "syntaxError" THEN searchDenoCatch(query, Net.syntaxError)
    ELSE IF resp.body.kind = "null" THEN searchDenoCatch(query, Net.typeError)
    ELSE LET data == OrEmptyList(resp.body.list)
         IN  IF HasBadItem(data) THEN searchDenoCatch(query, Net.typeError)
             ELSE Fulfilled(SearchResult(query, "deno",
                    [i \in 1..Len(data) |->
                        LET pkg == data[i][1]
                        IN  [name |-> pkg.name, version |-> pkg.version,
                             registry |-> "deno",
                             registryUrl |-> packageUrl("deno", pkg.name)]],
                    resp.body.total, Undefined))

\* search(query, limit, registry): the client the switch dispatches to
searchClient(query, registry) ==
    LET reg == ResolveRegistry(registry, query)
    IN  CASE reg = "npm" -> "searchNpm"
          [] reg = "jsr" -> "searchJsr"
          [] reg = "deno" -> "searchDeno"
          [] OTHER -> "searchNpm"

\* the clients searchAll hands to Promise.all, in order
searchAllClients == <<"searchNpm", "searchJsr", "searchDeno">>

\* a variant, Promise.any followed by a fill: fulfilled as soon as one outcome
\* is fulfilled, with that value in every slot
PromiseAny(outs) ==
    IF \E i \in 1..Len(outs) : outs[i].state = "fulfilled"
    THEN LET i == CHOOSE i \in 1..Len(outs) : outs[i].state = "fulfilled"
         IN  Fulfilled([list |-> [j \in 1..Len(outs) |-> outs[i].value]])
    ELSE Pending

\* a variant that hands the values back in reverse input order
PromiseAllReversed(outs) ==
    IF \E i \in 1..Len(outs) : outs[i].state = "rejected"
    THEN LET i == CHOOSE i \in 1..Len(outs) : outs[i].state = "rejected"
         IN  [state |-> "rejected", value |-> outs[i].value]
    ELSE IF \A i \in 1..Len(outs) : outs[i].state = "fulfilled"
    THEN Fulfilled([list |-> [i \in 1..Len(outs) |-> outs[Len(outs) + 1 - i].value]])
    ELSE Pending

\* Promise.all over the tasks' outcomes: rejected as soon as one is rejected,
\* fulfilled with the values in input order once all are fulfilled
PromiseAll(outs) ==
    IF \E i \in 1..Len(outs) : outs[i].state = "rejected"
    THEN LET i == CHOOSE i \in 1..Len(outs) : outs[i].state = "rejected"
         IN  [state |-> "rejected", value |-> outs[i].value]
    ELSE IF \A i \in 1..Len(outs) : outs[i].state = "fulfilled"
    THEN Fulfilled([list |-> [i \in 1..Len(outs) |-> outs[i].value]])
    ELSE Pending

\* searchAll's return value from what Promise.all produced
searchAll(all) ==
    IF all.state = "fulfilled"
    THEN Fulfilled([list |-> <<all.value.list[1], all.value.list[2], all.value.list[3]>>])
    ELSE all

\* ------------------------------------------------------------------- cdn.ts

\* the string literals of generateCDNImports
Cdn ==
    \* "latest"
    [ latest |-> <<"l","a","t","e","s","t">>,
    \* "https://unpkg.com/"
      unpkg |->
          <<"h","t","t","p","s",":","/","/","u","n","p","k","g",".","c","o","m",
          "/">>,
    \* "?module"
      moduleSuffix |-> <<"?","m","o","d","u","l","e">>,
    \* "/dist/index.min.js"
      distMin |->
          <<"/","d","i","s","t","/","i","n","d","e","x",".","m","i","n",".","j",
          "s">>,
    \* "https://cdn.jsdelivr.net/npm/"
      jsdelivr |->
          <<"h","t","t","p","s",":","/","/","c","d","n",".","j","s","d","e","l",
          "i","v","r",".","n","e","t","/","n","p","m","/">>,
    \* "/+esm"
      esmSuffix |-> <<"/","+","e","s","m">>,
    \* "https://cdn.skypack.dev/"
      skypack |->
          <<"h","t","t","p","s",":","/","/","c","d","n",".","s","k","y","p","a",
          "c","k",".","d","e","v","/">>,
    \* "https://cdn.skypack.dev/pin/"
      skypackPin |->
          <<"h","t","t","p","s",":","/","/","c","d","n",".","s","k","y","p","a",
          "c","k",".","d","e","v","/","p","i","n","/">>,
    \* "https://esm.sh/"
      esmSh |-> <<"h","t","t","p","s",":","/","/","e","s","m",".","s","h","/">>,
    \* "?bundle"
      bundleSuffix |-> <<"?","b","u","n","d","l","e">>,
    \* "https://jsr.io/"
      jsrIo |-> <<"h","t","t","p","s",":","/","/","j","s","r",".","i","o","/">>,
    \* "https://esm.sh/jsr/"
      esmShJsr |->
          <<"h","t","t","p","s",":","/","/","e","s","m",".","s","h","/","j","s",
          "r","/">>,
    \* "https://deno.land"
      httpsDenoLand |->
          <<"h","t","t","p","s",":","/","/","d","e","n","o",".","l","a","n","d">> ]

CDNImport(provider, url, type, minified, description) ==
    [provider |-> provider, url |-> url, type |-> type, minified |-> minified,
     description |-> description]

\* a variant without the fallback to the first entry
FindRecommendedNoFallback(imports, providers) ==
    IF \E i \in 1..Len(imports) : imports[i].provider \in providers
    THEN Some(imports[CHOOSE i \in 1..Len(imports) :
                 /\ imports[i].provider \in providers
                 /\ \A j \in 1..(i - 1) : imports[j].provider \notin providers])
    ELSE Undefined

\* imports.find(pred) || imports[0], pred given as the set of accepted providers
FindRecommended(imports, providers) ==
    IF \E i \in 1..Len(imports) : imports[i].provider \in providers
    THEN Some(imports[CHOOSE i \in 1..Len(imports) :
                 /\ imports[i].provider \in providers
                 /\ \A j \in 1..(i - 1) : imports[j].provider \notin providers])
    ELSE IF imports # << >> THEN Some(imports[1])
    ELSE Undefined

\* a variant that accepts esm.sh alone
RecommendedProvidersEsmOnly(reg) ==
    IF reg = "npm" \/ reg = "unknown" THEN {"esm.sh"}
    ELSE IF reg = "jsr" THEN {"jsr.io"}
    ELSE {"deno.land"}

\* the providers the recommendation accepts for a registry
RecommendedProviders(reg) ==
    IF reg = "npm" \/ reg = "unknown" THEN {"skypack", "esm.sh"}
    ELSE IF reg = "jsr" THEN {"jsr.io"}
    ELSE {"deno.land"}

\* the entries pushed for npm packages
npmCDNImports(reg, pkg) ==
    IF reg = "npm" \/ reg = "unknown"
    THEN << CDNImport("unpkg", Cdn.unpkg \o pkg, "esm", FALSE,
                      "Fast, global CDN for npm packages"),
            CDNImport("unpkg", Cdn.unpkg \o pkg \o Cdn.moduleSuffix, "esm", FALSE,
                      "ESM module from unpkg"),
            CDNImport("unpkg", Cdn.unpkg \o pkg \o Cdn.distMin, "umd", TRUE,
                      "Minified UMD bundle from unpkg"),
            CDNImport("jsdelivr", Cdn.jsdelivr \o pkg, "esm", FALSE,
                      "Fast, reliable CDN with npm support"),
            CDNImport("jsdelivr", Cdn.jsdelivr \o pkg \o Cdn.esmSuffix, "esm", FALSE,
                      "ESM module from jsDelivr"),
            CDNImport("jsdelivr", Cdn.jsdelivr \o pkg \o Cdn.distMin, "umd", TRUE,
                      "Minified bundle from jsDelivr"),
            CDNImport("skypack", Cdn.skypack \o pkg, "esm", TRUE,
                      "Optimized ESM packages with automatic bundling"),
            CDNImport("skypack", Cdn.skypackPin \o pkg, "esm", TRUE,
                      "Pinned version from Skypack (stable)"),
            CDNImport("esm.sh", Cdn.esmSh \o pkg, "esm", TRUE,
                      "Fast ESM CDN with TypeScript support"),
            CDNImport("esm.sh", Cdn.esmSh \o pkg \o Cdn.bundleSuffix, "esm", TRUE,
                      "Bundled ESM from esm.sh") >>
    ELSE << >>

\* the entries pushed for JSR packages
jsrCDNImports(reg, packageName, ver) ==
    IF reg = "jsr"
    THEN LET jsrPath == IF StartsWith(packageName, Det.at)
                        THEN Substring(packageName, 1)
                        ELSE packageName
         IN  << CDNImport("jsr.io", Cdn.jsrIo \o jsrPath \o Det.at \o ver, "esm", FALSE,
                          "Direct JSR CDN import"),
                CDNImport("esm.sh", Cdn.esmShJsr \o jsrPath \o Det.at \o ver, "esm", TRUE,
                          "JSR package via esm.sh") >>
    ELSE << >>

\* a variant that tests whether the name contains deno.land
denoCDNImportsContains(reg, packageName) ==
    IF reg = "deno"
    THEN (IF Includes(packageName, Det.denoLand)
          THEN << CDNImport("deno.land", packageName, "esm", FALSE,
                            "Direct Deno.land import") >>
          ELSE << >>)
         \o << CDNImport("esm.sh", Cdn.esmSh \o packageName, "esm", TRUE,
                         "Deno package via esm.sh") >>
    ELSE << >>

\* the entries pushed for Deno packages
denoCDNImports(reg, packageName) ==
    IF reg = "deno"
    THEN (IF StartsWith(packageName, Cdn.httpsDenoLand)
          THEN << CDNImport("deno.land", packageName, "esm", FALSE,
                            "Direct Deno.land import") >>
          ELSE << >>)
         \o << CDNImport("esm.sh", Cdn.esmSh \o packageName, "esm", TRUE,
                         "Deno package via esm.sh") >>
    ELSE << >>

generateCDNImports(packageName, version, registry) ==
    LET reg == ResolveRegistry(registry, packageName)
        ver == OrElse(version, Cdn.latest)
        pkg == IF Truthy(version) THEN packageName \o Det.at \o version[1]
               ELSE packageName
        imports == npmCDNImports(reg, pkg) \o jsrCDNImports(reg, packageName, ver)
                       \o denoCDNImports(reg, packageName)
    IN  [packageName |-> packageName, version |-> ver, registry |-> reg,
         imports |-> imports,
         recommended |-> FindRecommended(imports, RecommendedProviders(reg))]

\* --------------------------------------------------------- cdn.ts (search)

\* the string literals of the CDN search clients
CdnSch ==
    \* "https://api.cdnjs.com/libraries?search="
    [ cdnjsSearch |->
          <<"h","t","t","p","s",":","/","/","a","p","i",".","c","d","n","j","s",
          ".","c","o","m","/","l","i","b","r","a","r","i","e","s","?","s","e",
          "a","r","c","h","=">>,
    \* "&fields=version,description&limit="
      cdnjsFields |->
          <<"&","f","i","e","l","d","s","=","v","e","r","s","i","o","n",",","d",
          "e","s","c","r","i","p","t","i","o","n","&","l","i","m","i","t","=">>,
    \* "https://cdnjs.cloudflare.com/ajax/libs/"
      cdnjsLibs |->
          <<"h","t","t","p","s",":","/","/","c","d","n","j","s",".","c","l","o",
          "u","d","f","l","a","r","e",".","c","o","m","/","a","j","a","x","/",
          "l","i","b","s","/">>,
    \* "https://registry.npmjs.org/-/v1/search?text="
      npmSearchText |->
          <<"h","t","t","p","s",":","/","/","r","e","g","i","s","t","r","y",".",
          "n","p","m","j","s",".","o","r","g","/","-","/","v","1","/","s","e",
          "a","r","c","h","?","t","e","x","t","=">>,
    \* "https://unpkg.com/"
      unpkgBase |->
          <<"h","t","t","p","s",":","/","/","u","n","p","k","g",".","c","o","m",
          "/">>,
    \* "https://cdn.jsdelivr.net/npm/"
      jsdelivrBase |->
          <<"h","t","t","p","s",":","/","/","c","d","n",".","j","s","d","e","l",
          "i","v","r",".","n","e","t","/","n","p","m","/">>,
    \* "https://cdn.skypack.dev/"
      skypackBase |->
          <<"h","t","t","p","s",":","/","/","c","d","n",".","s","k","y","p","a",
          "c","k",".","d","e","v","/">>,
    \* "https://esm.sh/"
      esmShBase |-> <<"h","t","t","p","s",":","/","/","e","s","m",".","s","h","/">>,
    \* "CDNJS search failed: "
      cdnjsFailed |->
          <<"C","D","N","J","S"," ","s","e","a","r","c","h"," ","f","a","i","l",
          "e","d",":"," ">>,
    \* "Unpkg search failed: "
      unpkgFailed |->
          <<"U","n","p","k","g"," ","s","e","a","r","c","h"," ","f","a","i","l",
          "e","d",":"," ">>,
    \* "jsDelivr search failed: "
      jsdelivrFailed |->
          <<"j","s","D","e","l","i","v","r"," ","s","e","a","r","c","h"," ","f",
          "a","i","l","e","d",":"," ">>,
    \* "Skypack search failed: "
      skypackFailed |->
          <<"S","k","y","p","a","c","k"," ","s","e","a","r","c","h"," ","f","a",
          "i","l","e","d",":"," ">>,
    \* "esm.sh search failed: "
      esmShFailed |->
          <<"e","s","m",".","s","h"," ","s","e","a","r","c","h"," ","f","a","i",
          "l","e","d",":"," ">> ]

CDNSearchResult(provider, query, packages, total, error) ==
    [provider |-> provider, query |-> query, packages |-> packages,
     total |-> total, error |-> error]

\* `${x}` for an optional text: undefined renders as "undefined"
TemplateText(o) == IF IsDefined(o) THEN o[1] ELSE Det.undefined

searchCDNJSUrl(query, limit) ==
    CdnSch.cdnjsSearch \o encodeURIComponent(query) \o CdnSch.cdnjsFields \o NumToString(limit)
\* searchCDNJS's outcome once its fetch has settled with resp
searchCDNJS(query, limit, resp) ==
    LET catch(msg) == Fulfilled(CDNSearchResult("cdnjs", query, << >>, Undefined, Some(msg)))
    IN  IF resp.kind = "reject" THEN catch(resp.text)
        ELSE IF ~resp.ok THEN catch(CdnSch.cdnjsFailed \o resp.text)
        ELSE IF resp.body.kind = "syntaxError" THEN catch(Net.syntaxError)
        ELSE IF resp.body.kind = "null" THEN catch(Net.typeError)
        ELSE LET results == OrEmptyList(resp.body.list)
             IN  IF HasBadItem(results) THEN catch(Net.typeError)
                 ELSE Fulfilled(CDNSearchResult("cdnjs", query,
                        [i \in 1..Len(results) |->
                            LET pkg == results[i][1]
                                latest == IF Truthy(pkg.latest) THEN pkg.latest
                                          ELSE pkg.version
                            IN  [name |-> pkg.name,
                                 version |-> OrElse(latest, Det.regUnknown),
                                 url |-> CdnSch.cdnjsLibs \o pkg.name \o Det.slash
                                             \o TemplateText(latest) \o Det.slash]],
                        resp.body.total, Undefined))

\* the request of the four providers that search the npm registry
npmProxySearchUrl(query, limit) ==
    CdnSch.npmSearchText \o encodeURIComponent(query) \o Sch.sizeParam \o NumToString(limit)
\* the shared shape of searchUnpkg, searchJsDelivr, searchSkypack, searchEsmSh
npmProxySearch(provider, failed, base, query, resp) ==
    LET catch(msg) == Fulfilled(CDNSearchResult(provider, query, << >>, Undefined, Some(msg)))
    IN  IF resp.kind = "reject" THEN catch(resp.text)
        ELSE IF ~resp.ok THEN catch(failed \o resp.text)
        ELSE IF resp.body.kind = "syntaxError" THEN catch(Net.syntaxError)
        ELSE IF resp.body.kind = "null" THEN catch(Net.typeError)
        ELSE LET objects == OrEmptyList(resp.body.list)
             IN  IF HasBadItem(objects) THEN catch(Net.typeError)
                 ELSE Fulfilled(CDNSearchResult(provider, query,
                        [i \in 1..Len(objects) |->
                            LET pkg == objects[i][1]
                            IN  [name |-> pkg.name, version |-> pkg.version,
                                 url |-> base \o pkg.name \o Det.at
                                             \o TemplateText(pkg.version)]],
                        resp.body.total, Undefined))

searchUnpkg(query, limit, resp) ==
    npmProxySearch("unpkg", CdnSch.unpkgFailed, CdnSch.unpkgBase, query, resp)
searchJsDelivr(query, limit, resp) ==
    npmProxySearch("jsdelivr", CdnSch.jsdelivrFailed, CdnSch.jsdelivrBase, query, resp)
searchSkypack(query, limit, resp) ==
    npmProxySearch("skypack", CdnSch.skypackFailed, CdnSch.skypackBase, query, resp)
searchEsmSh(query, limit, resp) ==
    npmProxySearch("esm.sh", CdnSch.esmShFailed, CdnSch.esmShBase, query, resp)

\* ---------------------------------------------------------- bundle-size.ts

\* the string literals of bundle-size.ts
Bun ==
    \* "https://bundlephobia.com/api/size?package="
    [ bundlephobia |->
          <<"h","t","t","p","s",":","/","/","b","u","n","d","l","e","p","h","o",
          "b","i","a",".","c","o","m","/","a","p","i","/","s","i","z","e","?",
          "p","a","c","k","a","g","e","=">>,
    \* "Failed to get bundle size: "
      bundleFailed |->
          <<"F","a","i","l","e","d"," ","t","o"," ","g","e","t"," ","b","u","n",
          "d","l","e"," ","s","i","z","e",":"," ">>,
    \* "Request timeout: Bundlephobia API took too long to respond"
      bundleTimeout |->
          <<"R","e","q","u","e","s","t"," ","t","i","m","e","o","u","t",":"," ",
          "B","u","n","d","l","e","p","h","o","b","i","a"," ","A","P","I"," ",
          "t","o","o","k"," ","t","o","o"," ","l","o","n","g"," ","t","o"," ",
          "r","e","s","p","o","n","d">>,
    \* "Bundle size checking not available for JSR/Deno packages"
      bundleNotAvailable |->
          <<"B","u","n","d","l","e"," ","s","i","z","e"," ","c","h","e","c","k",
          "i","n","g"," ","n","o","t"," ","a","v","a","i","l","a","b","l","e",
          " ","f","o","r"," ","J","S","R","/","D","e","n","o"," ","p","a","c",
          "k","a","g","e","s">>,
    \* "Bundle size checking not supported for "
      bundleNotSupported |->
          <<"B","u","n","d","l","e"," ","s","i","z","e"," ","c","h","e","c","k",
          "i","n","g"," ","n","o","t"," ","s","u","p","p","o","r","t","e","d",
          " ","f","o","r"," ">> ]

BundleSizeInfo(package, version, minified, gzipped, brotli, registry, error) ==
    [package |-> package, version |-> version,
     size |-> [minified |-> minified, minifiedGzipped |-> gzipped,
               minifiedBrotli |-> brotli],
     registry |-> registry, error |-> error]

\* the outer catch block of getNpmBundleSize
getNpmBundleSizeCatch(packageName, version, msg) ==
    Fulfilled(BundleSizeInfo(packageName, OrElse(version, Det.regUnknown), 0, 0,
                             Undefined, "npm", Some(msg)))
getNpmBundleSizeUrl(packageName, version) ==
    Bun.bundlephobia \o encodeURIComponent(
        IF Truthy(version) THEN packageName \o Det.at \o version[1] ELSE packageName)
\* getNpmBundleSize's outcome once its fetch has settled with resp; a fetch
\* aborted by the 15 s timer rejects with an AbortError
getNpmBundleSize(packageName, version, resp) ==
    IF resp.kind = "reject"
    THEN getNpmBundleSizeCatch(packageName, version,
            IF resp.errName = "AbortError" THEN Bun.bundleTimeout ELSE resp.text)
    ELSE IF ~resp.ok
    THEN getNpmBundleSizeCatch(packageName, version, Bun.bundleFailed \o resp.text)
    ELSE IF resp.body.kind = "syntaxError"
    THEN getNpmBundleSizeCatch(packageName, version, Net.syntaxError)
    ELSE IF resp.body.kind = "null"
    THEN getNpmBundleSizeCatch(packageName, version, Net.typeError)
    ELSE LET data == resp.body
         IN  Fulfilled(BundleSizeInfo(packageName,
                OrElse(data.version, OrElse(version, Cdn.latest)),
                data.size, data.gzip,
                IF data.brotli # 0 THEN Some(data.brotli) ELSE Undefined,
                "npm", Undefined))

\* getBundleSize for a registry that has no size API: returned at once
getBundleSizeStub(packageName, version, reg) ==
    BundleSizeInfo(packageName, OrElse(version, Det.regUnknown), 0, 0, Undefined, reg,
        Some(IF reg = "jsr" \/ reg = "deno" THEN Bun.bundleNotAvailable
             ELSE Bun.bundleNotSupported \o RegText(reg)))

\* a variant that leaves kind unknown out of the npm branch
IsNpmPathNpmOnly(reg) == reg = "npm"
\* the switch of the auto-detecting inspectors: does kind reg take the npm path
IsNpmPath(reg) == reg = "npm" \/ reg = "unknown"

\* ------------------------------------------------------- vulnerabilities.ts

\* the string literals of vulnerabilities.ts
Vul ==
    \* "https://registry.npmjs.org/"
    [ npmRegistry |->
          <<"h","t","t","p","s",":","/","/","r","e","g","i","s","t","r","y",".",
          "n","p","m","j","s",".","o","r","g","/">>,
    \* "Package not found: "
      packageNotFound |->
          <<"P","a","c","k","a","g","e"," ","n","o","t"," ","f","o","u","n","d",
          ":"," ">>,
    \* "Vulnerability checking not supported for "
      vulnNotSupported |->
          <<"V","u","l","n","e","r","a","b","i","l","i","t","y"," ","c","h","e",
          "c","k","i","n","g"," ","n","o","t"," ","s","u","p","p","o","r","t",
          "e","d"," ","f","o","r"," ">> ]

VulnerabilityResult(packageName, registry, error) ==
    [packageName |-> packageName, registry |-> registry, vulnerabilities |-> << >>,
     summary |-> [total |-> 0, critical |-> 0, high |-> 0, moderate |-> 0, low |-> 0],
     error |-> error]

checkNpmVulnerabilitiesUrl(packageName) ==
    Vul.npmRegistry \o encodeURIComponent(packageName)
\* checkNpmVulnerabilities's outcome once its fetch has settled with resp;
\* the body of the response is never read
checkNpmVulnerabilities(packageName, resp) ==
    IF resp.kind = "reject"
    THEN Fulfilled(VulnerabilityResult(packageName, "npm", Some(resp.text)))
    ELSE IF ~resp.ok
    THEN Fulfilled(VulnerabilityResult(packageName, "npm",
                                       Some(Vul.packageNotFound \o packageName)))
    ELSE Fulfilled(VulnerabilityResult(packageName, "npm", Undefined))

\* a variant that reports the missing data source as an error for every kind
checkVulnerabilitiesStubWithError(packageName, reg) ==
    VulnerabilityResult(packageName, reg, Some(Vul.vulnNotSupported \o RegText(reg)))

\* checkVulnerabilities for jsr and deno: an empty result, returned at once
checkVulnerabilitiesStub(packageName, reg) ==
    VulnerabilityResult(packageName, reg,
        IF reg = "jsr" \/ reg = "deno" THEN Undefined
        ELSE Some(Vul.vulnNotSupported \o RegText(reg)))

\* ---------------------------------------------------------- dependencies.ts

\* the string literals of dependencies.ts
Dep ==
    \* "Failed to fetch package: "
    [ fetchPackageFailed |->
          <<"F","a","i","l","e","d"," ","t","o"," ","f","e","t","c","h"," ","p",
          "a","c","k","a","g","e",":"," ">>,
    \* "https://jsr.io/api/packages/"
      jsrApiPackages |->
          <<"h","t","t","p","s",":","/","/","j","s","r",".","i","o","/","a","p",
          "i","/","p","a","c","k","a","g","e","s","/">>,
    \* "Failed to fetch JSR package: "
      fetchJsrFailed |->
          <<"F","a","i","l","e","d"," ","t","o"," ","f","e","t","c","h"," ","J",
          "S","R"," ","p","a","c","k","a","g","e",":"," ">>,
    \* "Dependency analysis not fully supported for "
      analysisNotSupported |->
          <<"D","e","p","e","n","d","e","n","c","y"," ","a","n","a","l","y","s",
          "i","s"," ","n","o","t"," ","f","u","l","l","y"," ","s","u","p","p",
          "o","r","t","e","d"," ","f","o","r"," ">>,
    \* "Dependency tree not fully supported for "
      treeNotSupported |->
          <<"D","e","p","e","n","d","e","n","c","y"," ","t","r","e","e"," ","n",
          "o","t"," ","f","u","l","l","y"," ","s","u","p","p","o","r","t","e",
          "d"," ","f","o","r"," ">> ]

\* data.versions[key]: the version document stored under key, if any
VersionLookup(versions, key) ==
    IF IsDefined(key) /\ \E i \in 1..Len(versions) : versions[i].v = key[1]
    THEN Some(versions[CHOOSE i \in 1..Len(versions) : versions[i].v = key[1]].data)
    ELSE Undefined

\* version || data["dist-tags"]?.latest || Object.keys(data.versions).pop()
\* followed by data.versions[latestVersion]; threw when either step reads
\* a property of an undefined versions object
NpmVersionData(version, data) ==
    LET chosen == IF Truthy(version) THEN version
                  ELSE IF Truthy(data.latest) THEN data.latest
                  ELSE IF ~IsDefined(data.versions) \/ data.versions[1] = << >>
                  THEN Undefined
                  ELSE Some(data.versions[1][Len(data.versions[1])].v)
    IN  IF ~IsDefined(data.versions)
        THEN [threw |-> TRUE, latestVersion |-> chosen, versionData |-> Undefined]
        ELSE [threw |-> FALSE, latestVersion |-> chosen,
              versionData |-> VersionLookup(data.versions[1], chosen)]

DependencyNode(name, version, deps, devDeps, peerDeps, optDeps) ==
    [name |-> name, version |-> version, dependencies |-> deps,
     devDependencies |-> devDeps, peerDependencies |-> peerDeps,
     optionalDependencies |-> optDeps]

DependencyTree(root, registry, tree, error) ==
    [root |-> root, registry |-> registry, tree |-> tree, error |-> error]

\* a tree node carrying only the requested name and version
BareNode(packageName, version) ==
    DependencyNode(packageName, OrElse(version, Det.regUnknown), Undefined, Undefined,
                   Undefined, Undefined)

\* Object.entries(m).map(([name, ver]) => ({name, version: ver}))
EntriesToNodes(m) ==
    IF IsDefined(m)
    THEN Some([i \in 1..Len(m[1]) |-> [name |-> m[1][i].name, version |-> m[1][i].version]])
    ELSE Undefined

\* a variant whose catch block forgets the requested version
getNpmDependencyTreeCatchNoVersion(packageName, version, msg) ==
    Fulfilled(DependencyTree(packageName, "npm", BareNode(packageName, Undefined),
                             Some(msg)))

\* the catch block of getNpmDependencyTree
getNpmDependencyTreeCatch(packageName, version, msg) ==
    Fulfilled(DependencyTree(packageName, "npm", BareNode(packageName, version),
                             Some(msg)))
getNpmDependencyTreeUrl(packageName) ==
    Vul.npmRegistry \o encodeURIComponent(packageName)
\* getNpmDependencyTree's outcome once its fetch has settled with resp
getNpmDependencyTree(packageName, version, resp) ==
    IF resp.kind = "reject"
    THEN getNpmDependencyTreeCatch(packageName, version, resp.text)
    ELSE IF ~resp.ok
    THEN getNpmDependencyTreeCatch(packageName, version,
                                   Dep.fetchPackageFailed \o resp.text)
    ELSE IF resp.body.kind = "syntaxError"
    THEN getNpmDependencyTreeCatch(packageName, version, Net.syntaxError)
    ELSE IF resp.body.kind = "null"
    THEN getNpmDependencyTreeCatch(packageName, version, Net.typeError)
    ELSE LET found == NpmVersionData(version, resp.body)
         IN  IF found.threw \/ ~IsDefined(found.versionData)
             THEN getNpmDependencyTreeCatch(packageName, version, Net.typeError)
             ELSE LET pkgData == found.versionData[1]
                  IN  Fulfilled(DependencyTree(packageName, "npm",
                        DependencyNode(OrElse(pkgData.name, packageName),
                                       OrElse(pkgData.version, found.latestVersion[1]),
                                       EntriesToNodes(pkgData.dependencies),
                                       EntriesToNodes(pkgData.devDependencies),
                                       pkgData.peerDependencies,
                                       pkgData.optionalDependencies),
                        Undefined))

\* getDependencyTree for a registry other than npm: returned at once
getDependencyTreeStub(packageName, version, reg) ==
    DependencyTree(packageName, reg, BareNode(packageName, version),
                   Some(Dep.treeNotSupported \o RegText(reg)))

PeerDependencyInfo(package, peerDependencies, registry, error) ==
    [package |-> package, peerDependencies |-> peerDependencies,
     registry |-> registry, error |-> error]

\* m || {} on an optional mapping
OrEmptyMap(m) == IF IsDefined(m) THEN m[1] ELSE << >>

\* the scope and name getPeerDependencies reads from a JSR package name
jsrScopeAndName(packageName) ==
    LET parts == Split(ReplaceFirst(packageName, "@"), "/")
    IN  [scope |-> parts[1],
         name |-> IF Len(parts) >= 2 /\ parts[2] # << >> THEN parts[2] ELSE parts[1]]

\* a variant whose catch block drops the message
getPeerDependenciesCatchSilent(packageName, reg, msg) ==
    Fulfilled(PeerDependencyInfo(packageName, << >>, reg, Undefined))
\* the catch block of getPeerDependencies
getPeerDependenciesCatch(packageName, reg, msg) ==
    Fulfilled(PeerDependencyInfo(packageName, << >>, reg, Some(msg)))
\* the first request of getPeerDependencies
getPeerDependenciesUrl(packageName, reg) ==
    IF IsNpmPath(reg) THEN Vul.npmRegistry \o encodeURIComponent(packageName)
    ELSE LET p == jsrScopeAndName(packageName)
         IN  Dep.jsrApiPackages \o p.scope \o Det.slash \o p.name
\* a variant that asks for the version document named "latest"
getPeerDependenciesVersionUrlLatest(packageName, data) ==
    getPeerDependenciesUrl(packageName, "jsr") \o Det.slash
        \o <<"l", "a", "t", "e", "s", "t">>
\* the version-document request of the jsr branch, issued once the package
\* summary has been read; `${latestVersion}` renders undefined as "undefined"
getPeerDependenciesVersionUrl(packageName, data) ==
    getPeerDependenciesUrl(packageName, "jsr") \o Det.slash
        \o (IF IsDefined(data.latestVersion) THEN data.latestVersion[1]
            ELSE Det.undefined)
\* does the jsr branch go on to its second request after the first response
getPeerDependenciesContinues(reg, resp) ==
    /\ reg = "jsr"
    /\ resp.kind = "status" /\ resp.ok
    /\ resp.body.kind = "object"
\* getPeerDependencies's outcome once its fetches have settled: resp is the
\* first response, resp2 the version document's (jsr branch only)
getPeerDependencies(packageName, reg, resp, resp2) ==
    IF IsNpmPath(reg)
    THEN IF resp.kind = "reject"
         THEN getPeerDependenciesCatch(packageName, reg, resp.text)
         ELSE IF ~resp.ok
         THEN getPeerDependenciesCatch(packageName, reg,
                                       Dep.fetchPackageFailed \o resp.text)
         ELSE IF resp.body.kind = "syntaxError"
         THEN getPeerDependenciesCatch(packageName, reg, Net.syntaxError)
         ELSE IF resp.body.kind = "null"
         THEN getPeerDependenciesCatch(packageName, reg, Net.typeError)
         ELSE LET found == NpmVersionData(Undefined, resp.body)
              IN  IF found.threw \/ ~IsDefined(found.versionData)
                  THEN getPeerDependenciesCatch(packageName, reg, Net.typeError)
                  ELSE Fulfilled(PeerDependencyInfo(packageName,
                          OrEmptyMap(found.versionData[1].peerDependencies),
                          "npm", Undefined))
    ELSE IF resp.kind = "reject"
    THEN getPeerDependenciesCatch(packageName, reg, resp.text)
    ELSE IF ~resp.ok
    THEN getPeerDependenciesCatch(packageName, reg, Dep.fetchJsrFailed \o resp.text)
    ELSE IF resp.body.kind = "syntaxError"
    THEN getPeerDependenciesCatch(packageName, reg, Net.syntaxError)
    ELSE IF resp.body.kind = "null"
    THEN getPeerDependenciesCatch(packageName, reg, Net.typeError)
    ELSE IF resp2.kind = "reject"
    THEN getPeerDependenciesCatch(packageName, reg, resp2.text)
    ELSE IF ~resp2.ok
    THEN Fulfilled(PeerDependencyInfo(packageName, << >>, reg, Undefined))
    ELSE IF resp2.body.kind = "syntaxError"
    THEN getPeerDependenciesCatch(packageName, reg, Net.syntaxError)
    ELSE IF resp2.body.kind = "null"
    THEN getPeerDependenciesCatch(packageName, reg, Net.typeError)
    ELSE Fulfilled(PeerDependencyInfo(packageName,
            OrEmptyMap(resp2.body.peerDependencies), "jsr", Undefined))

\* getPeerDependencies for a registry with no branch (deno): returned at once
getPeerDependenciesStub(packageName, reg) ==
    PeerDependencyInfo(packageName, << >>, reg, Undefined)

DependencyAnalysis(package, registry, direct, dev, peer, optional, error) ==
    [package |-> package, registry |-> registry,
     totalDependencies |-> direct + dev + peer + optional,
     directDependencies |-> direct, devDependencies |-> dev,
     peerDependencies |-> peer, optionalDependencies |-> optional,
     hasVulnerabilities |-> FALSE, largestDependencies |-> << >>, error |-> error]

\* a variant whose catch block reports -1 direct dependencies
analyzeDependenciesCatchSentinel(packageName, reg, msg) ==
    Fulfilled(DependencyAnalysis(packageName, reg, 0 - 1, 0, 0, 0, Some(msg)))
analyzeDependenciesCatch(packageName, reg, msg) ==
    Fulfilled(DependencyAnalysis(packageName, reg, 0, 0, 0, 0, Some(msg)))
analyzeDependenciesUrl(packageName) ==
    Vul.npmRegistry \o encodeURIComponent(packageName)
\* analyzeDependencies's outcome on the npm path once its fetch has settled
analyzeDependencies(packageName, reg, resp) ==
    IF resp.kind = "reject"
    THEN analyzeDependenciesCatch(packageName, reg, resp.text)
    ELSE IF ~resp.ok
    THEN analyzeDependenciesCatch(packageName, reg, Dep.fetchPackageFailed \o resp.text)
    ELSE IF resp.body.kind = "syntaxError"
    THEN analyzeDependenciesCatch(packageName, reg, Net.syntaxError)
    ELSE IF resp.body.kind = "null"
    THEN analyzeDependenciesCatch(packageName, reg, Net.typeError)
    ELSE LET found == NpmVersionData(Undefined, resp.body)
         IN  IF found.threw \/ ~IsDefined(found.versionData)
             THEN analyzeDependenciesCatch(packageName, reg, Net.typeError)
             ELSE LET versionData == found.versionData[1]
                  IN  Fulfilled(DependencyAnalysis(packageName, "npm",
                        Len(OrEmptyMap(versionData.dependencies)),
                        Len(OrEmptyMap(versionData.devDependencies)),
                        Len(OrEmptyMap(versionData.peerDependencies)),
                        Len(OrEmptyMap(versionData.optionalDependencies)),
                        Undefined))

\* analyzeDependencies for a registry other than npm: returned at once
analyzeDependenciesStub(packageName, reg) ==
    DependencyAnalysis(packageName, reg, 0, 0, 0, 0,
                       Some(Dep.analysisNotSupported \o RegText(reg)))

\* ------------------------------------------------------- package-manager.ts

\* the string literals of package-manager.ts
Pkm ==
    \* "npm install "
    [ npmInstall |-> <<"n","p","m"," ","i","n","s","t","a","l","l"," ">>,
    \* " --save-dev"
      saveDev |-> <<" ","-","-","s","a","v","e","-","d","e","v">>,
    \* " --save"
      save |-> <<" ","-","-","s","a","v","e">>,
    \* "deno add "
      denoAdd |-> <<"d","e","n","o"," ","a","d","d"," ">>,
    \* " --dev"
      dev |-> <<" ","-","-","d","e","v">>,
    \* "cd "
      cd |-> <<"c","d"," ">>,
    \* " && "
      and |-> <<" ","&","&"," ">>,
    \* "npm uninstall "
      npmUninstall |-> <<"n","p","m"," ","u","n","i","n","s","t","a","l","l"," ">>,
    \* "deno remove "
      denoRemove |-> <<"d","e","n","o"," ","r","e","m","o","v","e"," ">>,
    \* "npm update "
      npmUpdateName |-> <<"n","p","m"," ","u","p","d","a","t","e"," ">>,
    \* " --latest"
      latest |-> <<" ","-","-","l","a","t","e","s","t">>,
    \* "npm update --latest"
      npmUpdateLatest |->
          <<"n","p","m"," ","u","p","d","a","t","e"," ","-","-","l","a","t","e",
          "s","t">>,
    \* "npm update"
      npmUpdate |-> <<"n","p","m"," ","u","p","d","a","t","e">>,
    \* "deno update "
      denoUpdateName |-> <<"d","e","n","o"," ","u","p","d","a","t","e"," ">>,
    \* "deno update"
      denoUpdate |-> <<"d","e","n","o"," ","u","p","d","a","t","e">>,
    \* "npm ci"
      npmCi |-> <<"n","p","m"," ","c","i">>,
    \* "deno cache --reload deps.ts || deno cache --reload import_map.json"
      denoCi |->
          <<"d","e","n","o"," ","c","a","c","h","e"," ","-","-","r","e","l","o",
          "a","d"," ","d","e","p","s",".","t","s"," ","|","|"," ","d","e","n",
          "o"," ","c","a","c","h","e"," ","-","-","r","e","l","o","a","d"," ",
          "i","m","p","o","r","t","_","m","a","p",".","j","s","o","n">>,
    \* "npm outdated --json"
      npmOutdated |->
          <<"n","p","m"," ","o","u","t","d","a","t","e","d"," ","-","-","j","s",
          "o","n">>,
    \* "deno outdated --json"
      denoOutdated |->
          <<"d","e","n","o"," ","o","u","t","d","a","t","e","d"," ","-","-","j",
          "s","o","n">>,
    \* "Unsupported registry: "
      unsupportedRegistry |->
          <<"U","n","s","u","p","p","o","r","t","e","d"," ","r","e","g","i","s",
          "t","r","y",":"," ">>,
    \* "Install command generated for "
      generatedInstall |->
          <<"I","n","s","t","a","l","l"," ","c","o","m","m","a","n","d"," ","g",
          "e","n","e","r","a","t","e","d"," ","f","o","r"," ">>,
    \* "Remove command generated for "
      generatedRemove |->
          <<"R","e","m","o","v","e"," ","c","o","m","m","a","n","d"," ","g","e",
          "n","e","r","a","t","e","d"," ","f","o","r"," ">>,
    \* "Update command generated for "
      generatedUpdate |->
          <<"U","p","d","a","t","e"," ","c","o","m","m","a","n","d"," ","g","e",
          "n","e","r","a","t","e","d"," ","f","o","r"," ">>,
    \* "CI command generated for "
      generatedCi |->
          <<"C","I"," ","c","o","m","m","a","n","d"," ","g","e","n","e","r","a",
          "t","e","d"," ","f","o","r"," ">>,
    \* "Failed to generate install command"
      failedInstall |->
          <<"F","a","i","l","e","d"," ","t","o"," ","g","e","n","e","r","a","t",
          "e"," ","i","n","s","t","a","l","l"," ","c","o","m","m","a","n","d">>,
    \* "Failed to generate remove command"
      failedRemove |->
          <<"F","a","i","l","e","d"," ","t","o"," ","g","e","n","e","r","a","t",
          "e"," ","r","e","m","o","v","e"," ","c","o","m","m","a","n","d">>,
    \* "Failed to generate update command"
      failedUpdate |->
          <<"F","a","i","l","e","d"," ","t","o"," ","g","e","n","e","r","a","t",
          "e"," ","u","p","d","a","t","e"," ","c","o","m","m","a","n","d">>,
    \* "Failed to generate CI command"
      failedCi |->
          <<"F","a","i","l","e","d"," ","t","o"," ","g","e","n","e","r","a","t",
          "e"," ","C","I"," ","c","o","m","m","a","n","d">> ]

\* a variant that reports success whatever happened
PackageManagerResultAlwaysOk(success, message, registry, command, error) ==
    [success |-> TRUE, message |-> message, registry |-> registry,
     command |-> command, error |-> error]

\* PackageManagerResult
PackageManagerResult(success, message, registry, command, error) ==
    [success |-> success, message |-> message, registry |-> registry,
     command |-> command, error |-> error]

\* a variant that leaves out the ' && ' between the two commands
WithWorkspaceNoSeparator(workspace, command) ==
    IF Truthy(workspace) THEN Pkm.cd \o workspace[1] \o command ELSE command

\* if (workspace) command = `cd ${workspace} && ${command}`
WithWorkspace(workspace, command) ==
    IF Truthy(workspace) THEN Pkm.cd \o workspace[1] \o Pkm.and \o command ELSE command

\* a variant that consults detection before the registry option
CommandRegistryDetectFirst(registry, packageName, autoDetect) ==
    IF autoDetect THEN detectRegistry(packageName)
    ELSE IF registry # "undefined" THEN registry
    ELSE "npm"

\* options.registry || (autoDetect ? detectRegistry(options.packageName) : "npm")
CommandRegistry(registry, packageName, autoDetect) ==
    IF registry # "undefined" THEN registry
    ELSE IF autoDetect THEN detectRegistry(packageName)
    ELSE "npm"

\* a variant that joins the version to the name without the '@'
VersionSuffixBare(version) == IF Truthy(version) THEN version[1] ELSE << >>

\* `@${options.version}` or ""
VersionSuffix(version) == IF Truthy(version) THEN Det.at \o version[1] ELSE << >>

getInstallCommand(packageName, version, dev, registryArg, workspace, autoDetect) ==
    LET registry == CommandRegistry(registryArg, packageName, autoDetect)
    IN  IF registry = "npm" \/ registry = "unknown"
        THEN PackageManagerResult(TRUE, Pkm.generatedInstall \o RegText(registry), registry,
                Some(WithWorkspace(workspace,
                    Pkm.npmInstall \o packageName \o VersionSuffix(version)
                        \o (IF dev THEN Pkm.saveDev ELSE Pkm.save))),
                Undefined)
        ELSE IF registry = "jsr"
        THEN PackageManagerResult(TRUE, Pkm.generatedInstall \o RegText(registry), registry,
                Some(WithWorkspace(workspace,
                    Pkm.denoAdd \o packageName \o VersionSuffix(version)
                        \o (IF dev THEN Pkm.dev ELSE << >>))),
                Undefined)
        ELSE IF registry = "deno"
        THEN PackageManagerResult(TRUE, Pkm.generatedInstall \o RegText(registry), registry,
                Some(WithWorkspace(workspace,
                    Pkm.denoAdd \o packageName \o VersionSuffix(version))),
                Undefined)
        ELSE PackageManagerResult(FALSE, Pkm.failedInstall, registry, Undefined,
                Some(Pkm.unsupportedRegistry \o RegText(registry)))

getRemoveCommand(packageName, registryArg, workspace, autoDetect) ==
    LET registry == CommandRegistry(registryArg, packageName, autoDetect)
    IN  IF registry = "npm" \/ registry = "unknown"
        THEN PackageManagerResult(TRUE, Pkm.generatedRemove \o RegText(registry), registry,
                Some(WithWorkspace(workspace, Pkm.npmUninstall \o packageName)),
                Undefined)
        ELSE IF registry = "jsr" \/ registry = "deno"
        THEN PackageManagerResult(TRUE, Pkm.generatedRemove \o RegText(registry), registry,
                Some(WithWorkspace(workspace, Pkm.denoRemove \o packageName)),
                Undefined)
        ELSE PackageManagerResult(FALSE, Pkm.failedRemove, registry, Undefined,
                Some(Pkm.unsupportedRegistry \o RegText(registry)))

\* getUpdateCommand; an absent packageName is the empty text (both are falsy)
getUpdateCommand(packageName, registryArg, latest, workspace, autoDetect) ==
    LET registry == IF registryArg # "undefined" THEN registryArg
                    ELSE IF packageName # << >> /\ autoDetect
                    THEN detectRegistry(packageName)
                    ELSE "npm"
    IN  IF registry = "npm" \/ registry = "unknown"
        THEN PackageManagerResult(TRUE, Pkm.generatedUpdate \o RegText(registry), registry,
                Some(WithWorkspace(workspace,
                    IF packageName # << >>
                    THEN Pkm.npmUpdateName \o packageName
                             \o (IF latest THEN Pkm.latest ELSE << >>)
                    ELSE IF latest THEN Pkm.npmUpdateLatest ELSE Pkm.npmUpdate)),
                Undefined)
        ELSE IF registry = "jsr" \/ registry = "deno"
        THEN PackageManagerResult(TRUE, Pkm.generatedUpdate \o RegText(registry), registry,
                Some(WithWorkspace(workspace,
                    IF packageName # << >> THEN Pkm.denoUpdateName \o packageName
                    ELSE Pkm.denoUpdate)),
                Undefined)
        ELSE PackageManagerResult(FALSE, Pkm.failedUpdate, registry, Undefined,
                Some(Pkm.unsupportedRegistry \o RegText(registry)))

\* a variant whose jsr case shares the npm command
getCiCommandJsrAsNpm(registryArg, workspace) ==
    LET reg == IF registryArg # "undefined" THEN registryArg ELSE "npm"
    IN  PackageManagerResult(TRUE, Pkm.generatedCi \o RegText(reg), reg,
            Some(WithWorkspace(workspace, IF reg = "deno" THEN Pkm.denoCi ELSE Pkm.npmCi)),
            Undefined)

\* getCiCommand
getCiCommand(registryArg, workspace) ==
    LET reg == IF registryArg # "undefined" THEN registryArg ELSE "npm"
    IN  IF reg = "npm" \/ reg = "unknown"
        THEN PackageManagerResult(TRUE, Pkm.generatedCi \o RegText(reg), reg,
                Some(WithWorkspace(workspace, Pkm.npmCi)), Undefined)
        ELSE IF reg = "jsr" \/ reg = "deno"
        THEN PackageManagerResult(TRUE, Pkm.generatedCi \o RegText(reg), reg,
                Some(WithWorkspace(workspace, Pkm.denoCi)), Undefined)
        ELSE PackageManagerResult(FALSE, Pkm.failedCi, reg, Undefined,
                Some(Pkm.unsupportedRegistry \o RegText(reg)))

\* getOutdatedCommand (dependencies.ts)
getOutdatedCommand(registryArg, workspace) ==
    LET reg == IF registryArg # "undefined" THEN registryArg ELSE "npm"
    IN  [command |-> WithWorkspace(workspace,
            IF reg = "npm" \/ reg = "unknown" THEN Pkm.npmOutdated
            ELSE IF reg = "jsr" \/ reg = "deno" THEN Pkm.denoOutdated
            ELSE Pkm.npmOutdated),
         registry |-> reg]

\* ------------------------------------------------------------ state machine

VARIABLES
    status,    \* "idle", "running" (awaiting fetches), "returned", "thrown"
    call,      \* the operation in progress or last completed, with its arguments
    tasks,     \* the fetch-backed client calls the operation started
    requests,  \* the URLs requested so far by the operation, in issue order
    result,    \* the value the operation returned (or the error it threw)
    response,  \* what the tool-call handler returned, if a tool was called
    timer,     \* the abort timer of getNpmBundleSize: "none", "armed", "cleared", "fired"
    elapsed    \* milliseconds since the timer was armed

vars == <<status, call, tasks, requests, result, response, timer, elapsed>>

\* ------------------------------------------------------------------ inputs

SeqsUpTo(S, n) == UNION {[1..k -> S] : k \in 0..n}

\* names: an optional specifier or scheme, a free part of up to n characters,
\* an optional host
Names(n) ==
    {p \o b \o s :
        p \in {<< >>, Det.jsrColon, Det.npmColon, Det.https, Det.http},
        b \in SeqsUpTo({"@", "/", "a"}, n),
        s \in {<< >>, Det.denoLand, Det.nestLand}}

\* the names the documentation gives as examples
Exa ==
    \* "lodash"
    [ lodash |-> <<"l","o","d","a","s","h">>,
    \* "@std/path"
      stdPath |-> <<"@","s","t","d","/","p","a","t","h">>,
    \* "https://deno.land/x/oak"
      denoOak |->
          <<"h","t","t","p","s",":","/","/","d","e","n","o",".","l","a","n","d",
          "/","x","/","o","a","k">>,
    \* "jsr:@foo/bar"
      jsrFooBar |-> <<"j","s","r",":","@","f","o","o","/","b","a","r">>,
    \* "npm:left-pad"
      npmLeftPad |-> <<"n","p","m",":","l","e","f","t","-","p","a","d">>,
    \* "@myscope/mypkg"
      myscope |-> <<"@","m","y","s","c","o","p","e","/","m","y","p","k","g">> ]

DetectNames ==
    Names(MaxNameLen) \cup
    {Exa.lodash, Exa.stdPath, Exa.denoOak, Exa.jsrFooBar, Exa.npmLeftPad,
     Exa.myscope}
PkgNames == Names(MaxPkgLen)
\* names and queries of the fetch-backed operations and the command
\* builders: one per detection outcome, and the empty text
FetchNames == {<<"a">>, <<"@", "a", "/", "a">>, Det.denoLand, << >>}
\* queries of the fan-out operations
AllQueries == {<<"a">>, <<"@", "a", "/", "a">>}
Versions == {Undefined, Some(<< >>), Some(<<"1">>)}
Workspaces == {Undefined, Some(<< >>), Some(<<"w">>)}
OptRegistries == RegistryType \cup {"undefined"}
\* the command builders are also handed a value outside RegistryType, as a
\* caller without type checking can
AnyRegistries == OptRegistries \cup {"yarn"}
Limits == {Undefined, Some(5)}

\* search answers: unparsable, null, or an object whose list may be absent
\* and whose items may be null
SearchBodies ==
    LET GoodItem == [scope |-> <<"s">>, name |-> <<"a">>,
                     version |-> Some(<<"1">>), latest |-> Undefined]
        ItemPool == {Undefined, Some(GoodItem)}
    IN
    {SyntaxErrorBody, NullBody} \cup
    {[kind |-> "object", list |-> l, total |-> t] :
        l \in {Undefined, Some(<< >>)}, t \in {Undefined}} \cup
    {[kind |-> "object", list |-> Some(x), total |-> Some(MaxItems)] :
        x \in SeqsUpTo(ItemPool, MaxItems)}

\* a dependency mapping of k entries, in key order
DepMap(k) ==
    [i \in 1..k |-> [name |-> <<"d">> \o NumToString(i), version |-> <<"^", "1">>]]
DepMaps == {Undefined} \cup {Some(DepMap(k)) : k \in 0..MaxDeps}
VersionDoc(name, version, deps, dev, peer, opt) ==
    [name |-> name, version |-> version, dependencies |-> deps,
     devDependencies |-> dev, peerDependencies |-> peer,
     optionalDependencies |-> opt]
VersionDocs ==
    {VersionDoc(Undefined, Undefined, deps, dev, peer, opt) :
        deps \in DepMaps, peer \in DepMaps,
        dev \in {Undefined, Some(DepMap(MaxDeps))},
        opt \in {Undefined, Some(DepMap(MaxDeps))}}
    \cup {VersionDoc(Some(<<"x">>), Some(<<"2">>), Undefined, Undefined,
                     Undefined, Undefined)}
\* npm registry metadata documents: the latest tag and the versions object
MetadataBodies ==
    {SyntaxErrorBody, NullBody} \cup
    {[kind |-> "object", latest |-> l, versions |-> vs] :
        l \in {Undefined, Some(<<"1">>), Some(<<"9">>)},
        vs \in {Undefined, Some(<< >>)}
               \cup {Some(<<[v |-> <<"1">>, data |-> d]>>) : d \in VersionDocs}}
\* bundlephobia answers; a size of 0 stands for an absent or zero field
BundleBodies ==
    {SyntaxErrorBody, NullBody} \cup
    {[kind |-> "object", version |-> v, size |-> s[1], gzip |-> s[2],
      brotli |-> s[3]] :
        v \in {Undefined, Some(<<"2">>)},
        s \in {<<0, 0, 0>>, <<1024, 512, 0>>, <<1024, 512, 400>>}}
JsrPackageBodies ==
    {SyntaxErrorBody, NullBody} \cup
    {[kind |-> "object", latestVersion |-> v] : v \in {Undefined, Some(<<"1">>)}}
JsrVersionBodies ==
    {SyntaxErrorBody, NullBody} \cup
    {[kind |-> "object", peerDependencies |-> m] : m \in DepMaps}

FailedResponses ==
    {Response("reject", FALSE, m, "TypeError", NoBody) : m \in RejectMessages}
    \cup {Response("status", FALSE, t, "", NoBody) : t \in StatusTexts}
OkResponses(bodies) == {Response("status", TRUE, << >>, "", b) : b \in bodies}
NoResponse == Response("none", FALSE, << >>, "", NoBody)

SearchClients == {"searchNpm", "searchJsr", "searchDeno"}
CdnSearchClients ==
    {"searchCDNJS", "searchUnpkg", "searchJsDelivr", "searchSkypack", "searchEsmSh"}

\* the responses the environment may give to the first request of a client
\* started for call c
Responses(client, c) ==
    CASE c.fn = "searchAllCDNs" ->
            {Response("reject", FALSE, Net.networkError, "TypeError", NoBody)}
            \cup OkResponses({[kind |-> "object", total |-> Undefined,
                                list |-> Some(<<Some([scope |-> <<"s">>, name |-> <<"a">>,
                                                      version |-> Some(<<"1">>),
                                                      latest |-> Undefined])>>)]})
      [] c.tool # "none" /\ client \in SearchClients \cup CdnSearchClients ->
            {Response("reject", FALSE, Net.networkError, "TypeError", NoBody)}
            \cup OkResponses({[kind |-> "object", list |-> Some(<< >>),
                               total |-> Undefined]})
      [] client \in SearchClients \cup CdnSearchClients ->
            FailedResponses \cup OkResponses(SearchBodies)
      [] client = "getNpmBundleSize" ->
            FailedResponses \cup OkResponses(BundleBodies)
            \cup {Response("reject", FALSE, Net.aborted, "AbortError", NoBody)}
      [] client = "checkNpmVulnerabilities" ->
            FailedResponses \cup OkResponses({NoBody})
      [] client \in {"getNpmDependencyTree", "analyzeDependencies"} ->
            FailedResponses \cup OkResponses(MetadataBodies)
      [] client = "getPeerDependencies" ->
            FailedResponses \cup OkResponses(
                IF IsNpmPath(ResolveRegistry(c.registry, c.name))
                THEN MetadataBodies ELSE JsrPackageBodies)
\* the responses to the second request of a client
SecondResponses(client, c) == FailedResponses \cup OkResponses(JsrVersionBodies)

\* ------------------------------------------------------------ formatter.ts

\* A byte count is written in base 1024, most significant digit first and
\* without leading zero digits (0 is <<0>>), so that counts of 2^40 and above
\* are within reach.  The counts tried have zero digits after the third.
ByteCounts ==
    {<<0>>, <<1>>, <<512>>, <<1023>>,
     <<1, 0>>, <<1, 5>>, <<1, 512>>, <<1023, 1023>>,
     <<1, 0, 0>>, <<1, 5, 123>>, <<2, 512, 0>>, <<1023, 1023, 1023>>,
     <<1, 0, 0, 0>>, <<1, 512, 0, 0>>, <<1023, 1023, 1023, 0>>,
     <<1, 0, 0, 0, 0>>, <<5, 256, 0, 0, 0>>}

\* formatSize(bytes)
formatSize(bytes) ==
    LET sizes == << <<"B">>, <<"K", "B">>, <<"M", "B">>, <<"G", "B">> >>
        \* Math.floor(Math.log(bytes) / Math.log(k)): the number of base-1024
        \* digits after the first
        i == Len(bytes) - 1
        digit(j) == IF j <= Len(bytes) THEN bytes[j] ELSE 0
        \* (bytes / Math.pow(k, i)).toFixed(2): the quotient is exact, toFixed
        \* rounds it to the nearest hundredth, a tie going up
        fraction == digit(2) * 1024 + digit(3)
        hundredths == digit(1) * 100 + (fraction * 200 + 1048576) \div 2097152
        toFixed == NumToString(hundredths \div 100) \o <<".">>
                   \o NumToString((hundredths % 100) \div 10)
                   \o NumToString(hundredths % 10)
        \* `${sizes[i]}` of an index past the end of the array
        unit == IF i + 1 <= Len(sizes) THEN sizes[i + 1] ELSE Det.undefined
    IN  IF bytes = <<0>> THEN <<"0", " ", "B">>
        ELSE toFixed \o <<" ">> \o unit

\* ------------------------------------------------------------------ clients

Call(fn, name, version, registry, limit) ==
    [fn |-> fn, name |-> name, version |-> version, registry |-> registry,
     limit |-> limit, dev |-> FALSE, latest |-> FALSE, workspace |-> Undefined,
     autoDetect |-> TRUE, tool |-> "none", argRegistry |-> "undefined",
     defaultRegistry |-> "undefined", bytes |-> << >>, named |-> TRUE]

\* the URL a client requests when it is started for call c
ClientUrl(client, c) ==
    CASE client = "searchNpm" -> searchNpmUrl(c.name, LimitOrDefault(c.limit))
      [] client = "searchJsr" -> searchJsrUrl(c.name, LimitOrDefault(c.limit))
      [] client = "searchDeno" -> searchDenoUrl(c.name, LimitOrDefault(c.limit))
      [] client = "searchCDNJS" -> searchCDNJSUrl(c.name, LimitOrDefault(c.limit))
      [] client \in CdnSearchClients \ {"searchCDNJS"} ->
            npmProxySearchUrl(c.name, LimitOrDefault(c.limit))
      [] client = "getNpmBundleSize" -> getNpmBundleSizeUrl(c.name, c.version)
      [] client = "checkNpmVulnerabilities" -> checkNpmVulnerabilitiesUrl(c.name)
      [] client = "getNpmDependencyTree" -> getNpmDependencyTreeUrl(c.name)
      [] client = "analyzeDependencies" -> analyzeDependenciesUrl(c.name)
      [] client = "getPeerDependencies" ->
            getPeerDependenciesUrl(c.name, ResolveRegistry(c.registry, c.name))

\* the outcome of a client started for call c whose fetch settled with resp
\* (and whose second fetch, if it made one, settled with resp2)
ClientOutcome(client, c, resp, resp2) ==
    CASE client = "searchNpm" -> searchNpm(c.name, LimitOrDefault(c.limit), resp)
      [] client = "searchJsr" -> searchJsr(c.name, LimitOrDefault(c.limit), resp)
      [] client = "searchDeno" -> searchDeno(c.name, LimitOrDefault(c.limit), resp)
      [] client = "searchCDNJS" -> searchCDNJS(c.name, LimitOrDefault(c.limit), resp)
      [] client = "searchUnpkg" -> searchUnpkg(c.name, LimitOrDefault(c.limit), resp)
      [] client = "searchJsDelivr" ->
            searchJsDelivr(c.name, LimitOrDefault(c.limit), resp)
      [] client = "searchSkypack" ->
            searchSkypack(c.name, LimitOrDefault(c.limit), resp)
      [] client = "searchEsmSh" -> searchEsmSh(c.name, LimitOrDefault(c.limit), resp)
      [] client = "getNpmBundleSize" -> getNpmBundleSize(c.name, c.version, resp)
      [] client = "checkNpmVulnerabilities" -> checkNpmVulnerabilities(c.name, resp)
      [] client = "getNpmDependencyTree" ->
            getNpmDependencyTree(c.name, c.version, resp)
      [] client = "analyzeDependencies" ->
            analyzeDependencies(c.name, ResolveRegistry(c.registry, c.name), resp)
      [] client = "getPeerDependencies" ->
            getPeerDependencies(c.name, ResolveRegistry(c.registry, c.name),
                                resp, resp2)

\* after an ok response the client awaits response.json(); the
\* vulnerability check never reads the body
AwaitsJson(client, resp) ==
    resp.kind = "status" /\ resp.ok /\ client # "checkNpmVulnerabilities"

\* after reading the first body the client goes on to a second request
MakesSecondRequest(client, c, resp) ==
    /\ client = "getPeerDependencies"
    /\ getPeerDependenciesContinues(ResolveRegistry(c.registry, c.name), resp)

Task(client) ==
    [client |-> client, pc |-> "fetch", resp |-> NoResponse, resp2 |-> NoResponse,
     out |-> Pending]

Outcomes(ts) == [i \in 1..Len(ts) |-> ts[i].out]

\* what the operation's own promise becomes, given its tasks' outcomes
Finish(c, outs) ==
    CASE c.fn = "searchAll" -> searchAll(PromiseAll(outs))
      [] c.fn = "searchAllCDNs" -> PromiseAll(outs)
      [] OTHER -> outs[1]

NoResult == [none |-> TRUE]

\* ------------------------------------------------------------ mcp-server.ts

\* the string literals of the tool-call handler
Srv ==
    \* "Error: "
    [ errorPrefix |-> <<"E","r","r","o","r",":"," ">>,
    \* "Unknown tool: "
      unknownTool |-> <<"U","n","k","n","o","w","n"," ","t","o","o","l",":"," ">>,
    \* "\n\n"
      blankLine |-> <<"\n", "\n">> ]

\* getDefaultRegistry: the setting REGISTRY_MCP_PROVIDER, lower-cased, when it
\* is one of npm, jsr, deno; null ("undefined") otherwise
getDefaultRegistry(envRegistry) ==
    LET toLowerCase(t) ==
            [i \in 1..Len(t) |->
                CASE t[i] = "N" -> "n" [] t[i] = "P" -> "p" [] t[i] = "M" -> "m"
                  [] t[i] = "J" -> "j" [] t[i] = "S" -> "s" [] t[i] = "R" -> "r"
                  [] t[i] = "D" -> "d" [] t[i] = "E" -> "e" [] t[i] = "O" -> "o"
                  [] OTHER -> t[i]]
        lower == toLowerCase(envRegistry[1])
    IN  IF ~Truthy(envRegistry) THEN "undefined"
        ELSE IF lower = Det.regNpm THEN "npm"
        ELSE IF lower = Det.regJsr THEN "jsr"
        ELSE IF lower = Det.regDeno THEN "deno"
        ELSE "undefined"

\* the cases of the handler's switch
Tools ==
    {"search_packages", "search_all_registries", "search_npm", "search_jsr",
     "search_deno", "detect_registry", "get_registry_info", "check_bundle_size",
     "check_vuln", "install", "remove", "update", "check_outdated", "peer_deps",
     "dependency_tree", "analyze_dependency", "ci", "get_cdn_imports", "search_cdn"}

\* What the handler returns for call c once the operation it awaited has
\* settled with out.  The text is the sequence of the pieces the handler
\* concatenates: a literal, the formatter's rendering of a value, or
\* JSON.stringify of a value (which is undefined, not a string, for the value
\* undefined).  A rejection inside the try block gives the error envelope.
ToolResponse(c, out) ==
    LET Piece(kind, value, emoji) == [kind |-> kind, of |-> value, emoji |-> emoji]
        v == out.value
        both == Some(<<Piece("formatted", v, FALSE), Piece("literal", Srv.blankLine, FALSE),
                       Piece("json", v, c.tool = "get_cdn_imports")>>)
        results == IF c.tool = "search_cdn" /\ c.fn # "searchAllCDNs"
                   THEN [list |-> <<v>>] ELSE v
        json == IF "undefined" \in DOMAIN v THEN Undefined
                ELSE Some(<<Piece("json", results, c.tool = "search_cdn")>>)
        text == IF out.state = "rejected"
                THEN Some(<<Piece("literal", Srv.errorPrefix \o v.thrown, FALSE)>>)
                ELSE IF c.tool \in {"search_packages", "search_all_registries",
                                    "search_npm", "search_jsr", "search_deno",
                                    "check_bundle_size", "check_vuln", "get_cdn_imports"}
                THEN both
                ELSE json
    IN  IF c.tool = "none" THEN [none |-> TRUE]
        ELSE [content |-> <<[type |-> "text", text |-> text]>>,
              isError |-> out.state = "rejected"]
NoCall == Call("none", << >>, Undefined, "undefined", Undefined)

Init ==
    /\ status = "idle"
    /\ call = NoCall
    /\ tasks = << >>
    /\ requests = << >>
    /\ result = NoResult
    /\ response = NoResult
    /\ timer = "none"
    /\ elapsed = 0

\* one behaviour is one invocation: nothing is kept between invocations
CanCall == status = "idle"

\* an operation that starts the given clients and awaits them
Start(c, clients) ==
    /\ status' = "running"
    /\ call' = c
    /\ tasks' = [i \in 1..Len(clients) |-> Task(clients[i])]
    /\ requests' = [i \in 1..Len(clients) |-> ClientUrl(clients[i], c)]
    /\ result' = NoResult
    /\ response' = NoResult
    /\ timer' = IF clients = <<"getNpmBundleSize">> THEN "armed" ELSE "none"
    /\ elapsed' = 0

\* an operation that returns without awaiting anything
Complete(c, out) ==
    /\ status' = IF out.state = "fulfilled" THEN "returned" ELSE "thrown"
    /\ call' = c
    /\ tasks' = << >>
    /\ requests' = << >>
    /\ result' = out.value
    /\ response' = ToolResponse(c, out)
    /\ UNCHANGED <<timer, elapsed>>

\* the continuation of the awaiting operation once a task has settled
Resume(ts) ==
    LET fin == Finish(call, Outcomes(ts))
    IN  IF status = "running" /\ fin.state # "pending"
        THEN /\ status' = IF fin.state = "fulfilled" THEN "returned" ELSE "thrown"
             /\ result' = fin.value
             /\ response' = ToolResponse(call, fin)
        ELSE UNCHANGED <<status, result, response>>

\* a variant that issues every request a second time
AwaitWithRetry(clients) == [clients |-> clients \o clients, value |-> NoResult]

\* What an operation does when called: it starts clients and awaits them, or
\* it returns a value at once (or throws: the value is then [thrown |-> msg])
Await(clients) == [clients |-> clients, value |-> NoResult]
Immediate(v) == [clients |-> << >>, value |-> v]

\* getBundleSize(packageName, version, registry)
getBundleSize(packageName, version, registry) ==
    LET reg == ResolveRegistry(registry, packageName)
    IN  IF IsNpmPath(reg) THEN Await(<<"getNpmBundleSize">>)
        ELSE Immediate(getBundleSizeStub(packageName, version, reg))
\* checkVulnerabilities(packageName, registry)
checkVulnerabilities(packageName, registry) ==
    LET reg == ResolveRegistry(registry, packageName)
    IN  IF IsNpmPath(reg) THEN Await(<<"checkNpmVulnerabilities">>)
        ELSE Immediate(checkVulnerabilitiesStub(packageName, reg))
\* a variant that asks the npm registry whatever the kind is
getDependencyTreeAlwaysNpm(packageName, version, registry) ==
    Await(<<"getNpmDependencyTree">>)
\* getDependencyTree(packageName, version, registry)
getDependencyTree(packageName, version, registry) ==
    LET reg == ResolveRegistry(registry, packageName)
    IN  IF IsNpmPath(reg) THEN Await(<<"getNpmDependencyTree">>)
        ELSE Immediate(getDependencyTreeStub(packageName, version, reg))
\* the branch getPeerDependencies takes for a package
getPeerDependenciesPlan(packageName, registry) ==
    LET reg == ResolveRegistry(registry, packageName)
    IN  IF IsNpmPath(reg) \/ reg = "jsr" THEN Await(<<"getPeerDependencies">>)
        ELSE Immediate(getPeerDependenciesStub(packageName, reg))
\* the branch analyzeDependencies takes for a package
analyzeDependenciesPlan(packageName, registry) ==
    LET reg == ResolveRegistry(registry, packageName)
    IN  IF IsNpmPath(reg) THEN Await(<<"analyzeDependencies">>)
        ELSE Immediate(analyzeDependenciesStub(packageName, reg))

\* an operation is called with arguments c and does what plan says
Invoke(c, plan) ==
    IF plan.clients # << >> THEN Start(c, plan.clients)
    ELSE IF "thrown" \in DOMAIN plan.value THEN Complete(c, Rejected(plan.value.thrown))
    ELSE Complete(c, Fulfilled(plan.value))

\* searchNpm, searchJsr, searchDeno
CallSearchRegistry ==
    /\ CanCall
    /\ \E client \in SearchClients, q \in FetchNames, l \in Limits :
        Invoke(Call(client, q, Undefined, "undefined", l), Await(<<client>>))
CallSearch ==
    /\ CanCall
    /\ \E q \in FetchNames, l \in Limits, r \in OptRegistries :
        Invoke(Call("search", q, Undefined, r, l), Await(<<searchClient(q, r)>>))
CallSearchAll ==
    /\ CanCall
    /\ \E q \in AllQueries, l \in Limits :
        Invoke(Call("searchAll", q, Undefined, "undefined", l),
               Await(searchAllClients))
\* searchCDNJS, searchUnpkg, searchJsDelivr, searchSkypack, searchEsmSh
CallSearchCdn ==
    /\ CanCall
    /\ \E client \in CdnSearchClients, q \in FetchNames, l \in Limits :
        Invoke(Call(client, q, Undefined, "undefined", l), Await(<<client>>))
CallGetBundleSize ==
    /\ CanCall
    /\ \E n \in FetchNames, v \in Versions, r \in OptRegistries :
        Invoke(Call("getBundleSize", n, v, r, Undefined), getBundleSize(n, v, r))
CallCheckVulnerabilities ==
    /\ CanCall
    /\ \E n \in FetchNames, r \in OptRegistries :
        Invoke(Call("checkVulnerabilities", n, Undefined, r, Undefined),
               checkVulnerabilities(n, r))
CallGetDependencyTree ==
    /\ CanCall
    /\ \E n \in FetchNames, v \in Versions, r \in OptRegistries :
        Invoke(Call("getDependencyTree", n, v, r, Undefined),
               getDependencyTree(n, v, r))
CallGetPeerDependencies ==
    /\ CanCall
    /\ \E n \in FetchNames, r \in OptRegistries :
        Invoke(Call("getPeerDependencies", n, Undefined, r, Undefined),
               getPeerDependenciesPlan(n, r))
CallAnalyzeDependencies ==
    /\ CanCall
    /\ \E n \in FetchNames, r \in OptRegistries :
        Invoke(Call("analyzeDependencies", n, Undefined, r, Undefined),
               analyzeDependenciesPlan(n, r))
CallDetectRegistry ==
    /\ CanCall
    /\ \E n \in DetectNames :
        Invoke(Call("detectRegistry", n, Undefined, "undefined", Undefined),
               Immediate([packageName |-> n, registry |-> detectRegistry(n)]))
CallGenerateCDNImports ==
    /\ CanCall
    /\ \E n \in PkgNames, v \in Versions, r \in OptRegistries :
        Invoke(Call("generateCDNImports", n, v, r, Undefined),
               Immediate(generateCDNImports(n, v, r)))
CallGetInstallCommand ==
    /\ CanCall
    /\ \E n \in FetchNames, v \in Versions, d \in BOOLEAN, r \in AnyRegistries,
          w \in Workspaces, a \in BOOLEAN :
        Invoke([Call("getInstallCommand", n, v, r, Undefined)
                   EXCEPT !.dev = d, !.workspace = w, !.autoDetect = a],
               Immediate(getInstallCommand(n, v, d, r, w, a)))
CallGetRemoveCommand ==
    /\ CanCall
    /\ \E n \in FetchNames, r \in AnyRegistries, w \in Workspaces, a \in BOOLEAN :
        Invoke([Call("getRemoveCommand", n, Undefined, r, Undefined)
                   EXCEPT !.workspace = w, !.autoDetect = a],
               Immediate(getRemoveCommand(n, r, w, a)))
CallGetUpdateCommand ==
    /\ CanCall
    /\ \E n \in FetchNames, r \in AnyRegistries, l \in BOOLEAN, w \in Workspaces,
          a \in BOOLEAN :
        Invoke([Call("getUpdateCommand", n, Undefined, r, Undefined)
                   EXCEPT !.latest = l, !.workspace = w, !.autoDetect = a],
               Immediate(getUpdateCommand(n, r, l, w, a)))
CallGetCiCommand ==
    /\ CanCall
    /\ \E r \in AnyRegistries, w \in Workspaces :
        Invoke([Call("getCiCommand", << >>, Undefined, r, Undefined)
                   EXCEPT !.workspace = w],
               Immediate(getCiCommand(r, w)))
CallGetOutdatedCommand ==
    /\ CanCall
    /\ \E r \in OptRegistries, w \in Workspaces :
        Invoke([Call("getOutdatedCommand", << >>, Undefined, r, Undefined)
                   EXCEPT !.workspace = w],
               Immediate(getOutdatedCommand(r, w)))

\* The handler's switch: the operation a tool call invokes, with the arguments
\* the handler passes it, and what that operation does.  a holds the
\* arguments of the request; absent ones are undefined.  A request without
\* packageName or query hands the operation the value undefined:
\* `${undefined}` and encodeURIComponent(undefined) give "undefined", a truth
\* test takes it as false, and detectRegistry(undefined) throws a TypeError on
\* packageName.startsWith, which every operation but getUpdateCommand calls
\* outside its try block when it is given no registry.
ToolPlan(tool, args, defaultRegistry) ==
    LET a == [args EXCEPT !.name = IF args.named THEN args.name
                                   ELSE IF tool = "update" THEN << >>
                                   ELSE Det.undefined]
        registry == IF a.registry # "undefined" THEN a.registry ELSE defaultRegistry
        detects ==
            \/ tool \in {"search_packages", "detect_registry"}
            \/ /\ registry = "undefined"
               /\ tool \in {"check_bundle_size", "check_vuln", "install", "remove",
                             "peer_deps", "dependency_tree", "analyze_dependency",
                             "get_cdn_imports"}
        orNpm == IF registry # "undefined" THEN registry ELSE "npm"
        auto == registry = "undefined"
        limit == Some(LimitOrDefault(a.limit))
        Op(fn, version, reg, lim) ==
            [Call(fn, a.name, version, reg, lim)
                EXCEPT !.tool = tool, !.argRegistry = a.registry,
                       !.defaultRegistry = defaultRegistry, !.named = a.named]
        Builder(fn, version, reg) ==
            [Op(fn, version, reg, Undefined)
                EXCEPT !.workspace = a.workspace, !.autoDetect = auto]
        cdnClient ==
            CASE a.provider = "cdnjs" -> "searchCDNJS"
              [] a.provider = "unpkg" -> "searchUnpkg"
              [] a.provider = "jsdelivr" -> "searchJsDelivr"
              [] a.provider = "skypack" -> "searchSkypack"
              [] a.provider = "esm.sh" -> "searchEsmSh"
              [] OTHER -> "searchAllCDNs"
        Do(c, plan) ==
            [call |-> c,
             plan |-> IF ~a.named /\ detects
                      THEN Immediate([thrown |-> Net.typeError]) ELSE plan]
    IN  CASE tool = "search_packages" ->
                Do(Op("search", Undefined, "undefined", limit),
                   Await(<<searchClient(a.name, "undefined")>>))
          [] tool = "search_all_registries" ->
                Do(Op("searchAll", Undefined, "undefined", limit), Await(searchAllClients))
          [] tool = "search_npm" ->
                Do(Op("searchNpm", Undefined, "undefined", limit), Await(<<"searchNpm">>))
          [] tool = "search_jsr" ->
                Do(Op("searchJsr", Undefined, "undefined", limit), Await(<<"searchJsr">>))
          [] tool = "search_deno" ->
                Do(Op("searchDeno", Undefined, "undefined", limit), Await(<<"searchDeno">>))
          [] tool = "detect_registry" ->
                Do(Op("detectRegistry", Undefined, "undefined", Undefined),
                   Immediate([packageName |-> a.name, registry |-> detectRegistry(a.name)]))
          [] tool = "get_registry_info" ->
                Do(Op("getRegistryInfo", Undefined, a.registry, Undefined),
                   Immediate(IF a.registry \in RegistryType
                             THEN [registry |-> a.registry,
                                   searchUrl |-> searchUrl(a.registry)]
                             ELSE [undefined |-> TRUE]))
          [] tool = "check_bundle_size" ->
                Do(Op("getBundleSize", a.version, registry, Undefined),
                   getBundleSize(a.name, a.version, registry))
          [] tool = "check_vuln" ->
                Do(Op("checkVulnerabilities", Undefined, registry, Undefined),
                   checkVulnerabilities(a.name, registry))
          [] tool = "install" ->
                Do([Builder("getInstallCommand", a.version, registry) EXCEPT !.dev = a.dev],
                   Immediate(getInstallCommand(a.name, a.version, a.dev, registry,
                                               a.workspace, auto)))
          [] tool = "remove" ->
                Do(Builder("getRemoveCommand", Undefined, registry),
                   Immediate(getRemoveCommand(a.name, registry, a.workspace, auto)))
          [] tool = "update" ->
                Do([Builder("getUpdateCommand", Undefined, registry)
                       EXCEPT !.latest = a.latest],
                   Immediate(getUpdateCommand(a.name, registry, a.latest,
                                              a.workspace, auto)))
          [] tool = "check_outdated" ->
                Do([Builder("getOutdatedCommand", Undefined, orNpm)
                       EXCEPT !.name = << >>, !.autoDetect = TRUE],
                   Immediate(getOutdatedCommand(orNpm, a.workspace)))
          [] tool = "peer_deps" ->
                Do(Op("getPeerDependencies", Undefined, registry, Undefined),
                   getPeerDependenciesPlan(a.name, registry))
          [] tool = "dependency_tree" ->
                Do(Op("getDependencyTree", a.version, registry, Undefined),
                   getDependencyTree(a.name, a.version, registry))
          [] tool = "analyze_dependency" ->
                Do(Op("analyzeDependencies", Undefined, registry, Undefined),
                   analyzeDependenciesPlan(a.name, registry))
          [] tool = "ci" ->
                Do([Builder("getCiCommand", Undefined, orNpm)
                       EXCEPT !.name = << >>, !.autoDetect = TRUE],
                   Immediate(getCiCommand(orNpm, a.workspace)))
          [] tool = "get_cdn_imports" ->
                Do(Op("generateCDNImports", a.version, registry, Undefined),
                   Immediate(generateCDNImports(a.name, a.version, registry)))
          [] tool = "search_cdn" ->
                Do(Op(cdnClient, Undefined, "undefined", limit),
                   Await(IF cdnClient = "searchAllCDNs"
                         THEN <<"searchCDNJS", "searchUnpkg", "searchJsDelivr",
                                "searchSkypack", "searchEsmSh">>
                         ELSE <<cdnClient>>))
          [] OTHER -> Do(Op("none", Undefined, "undefined", Undefined), Immediate(NoResult))

\* A tool call arrives at a server that was started with the setting
\* REGISTRY_MCP_PROVIDER = env.  A name outside the switch throws inside the
\* try block; the other cases call their operation.
CallTool ==
    /\ CanCall
    /\ \E tool \in Tools \cup {"x"}, env \in {Undefined, Some(<< >>), Some(Det.regNpm),
              Some(<<"J", "S", "R">>), Some(Det.regDeno), Some(<<"y", "a", "r", "n">>)},
          n \in {<<"a">>}, v \in {Undefined, Some(<<"1">>)},
          r \in AnyRegistries, w \in {Undefined, Some(<<"w">>)}, d \in BOOLEAN,
          p \in {"undefined", "all", "cdnjs", "unpkg", "jsdelivr", "skypack", "esm.sh",
                 "other"},
          named \in BOOLEAN :
        LET a == [name |-> n, version |-> v, registry |-> r, limit |-> Undefined,
                  workspace |-> w, dev |-> d, latest |-> d, provider |-> p,
                  named |-> named]
            do == ToolPlan(tool, a, getDefaultRegistry(env))
        IN  IF tool \in Tools THEN Invoke(do.call, do.plan)
            ELSE Complete(do.call, Rejected(Srv.unknownTool \o <<tool>>))

\* 15 second timeout
TimeoutMs == 15000

\* time passes while getNpmBundleSize awaits its response or reads the body;
\* a due timer runs before more time passes
Tick ==
    /\ timer \in {"armed", "cleared"}
    /\ tasks[1].pc # "settled"
    /\ ~(timer = "armed" /\ elapsed >= TimeoutMs)
    /\ elapsed + TickMs <= MaxElapsed
    /\ elapsed' = elapsed + TickMs
    /\ UNCHANGED <<status, call, tasks, requests, result, response, timer>>

\* a variant whose timer is never cancelled by clearTimeout
TimerFiresUncancelled ==
    /\ timer \in {"armed", "cleared"}
    /\ elapsed >= TimeoutMs
    /\ timer' = "fired"
    /\ UNCHANGED <<status, call, tasks, requests, result, response, elapsed>>

\* a variant whose timer may run as soon as it is armed
TimerFiresEarly ==
    /\ timer = "armed"
    /\ timer' = "fired"
    /\ UNCHANGED <<status, call, tasks, requests, result, response, elapsed>>

\* setTimeout(() => controller.abort(), 15000): the timer callback runs
TimerFires ==
    /\ timer = "armed"
    /\ elapsed >= TimeoutMs
    /\ timer' = "fired"
    /\ UNCHANGED <<status, call, tasks, requests, result, response, elapsed>>

\* the fetch of task i settles: rejected, or a response with a status; an
\* aborted fetch rejects with an AbortError, and getNpmBundleSize clears its
\* timer on either way out of the await
FetchSettles(i) ==
    /\ tasks[i].pc = "fetch"
    /\ \E resp \in Responses(tasks[i].client, call) :
        LET t == tasks[i]
            settled == [t EXCEPT !.pc = "settled", !.resp = resp,
                            !.out = ClientOutcome(t.client, call, resp, NoResponse)]
            waiting == [t EXCEPT !.pc = "json", !.resp = resp]
            ts == [tasks EXCEPT ![i] =
                     IF AwaitsJson(t.client, resp) THEN waiting ELSE settled]
        IN  /\ (timer = "fired") <=> (resp.errName = "AbortError")
            /\ tasks' = ts
            /\ Resume(ts)
            /\ timer' = IF timer = "armed" THEN "cleared" ELSE timer
            /\ UNCHANGED <<call, requests, elapsed>>

\* response.json() of task i settles and the client maps the body, or goes
\* on to its second request
JsonSettles(i) ==
    /\ tasks[i].pc = "json"
    /\ LET t == tasks[i]
           again == MakesSecondRequest(t.client, call, t.resp)
           ts == [tasks EXCEPT ![i] =
                    IF again THEN [t EXCEPT !.pc = "fetch2"]
                    ELSE [t EXCEPT !.pc = "settled",
                              !.out = ClientOutcome(t.client, call, t.resp, NoResponse)]]
       IN  /\ tasks' = ts
           /\ requests' =
                IF again
                THEN Append(requests,
                            getPeerDependenciesVersionUrl(call.name, t.resp.body))
                ELSE requests
           /\ Resume(ts)
           /\ UNCHANGED <<call, timer, elapsed>>

\* the second fetch of task i settles
SecondFetchSettles(i) ==
    /\ tasks[i].pc = "fetch2"
    /\ \E resp2 \in SecondResponses(tasks[i].client, call) :
        LET t == tasks[i]
            settled == [t EXCEPT !.pc = "settled", !.resp2 = resp2,
                            !.out = ClientOutcome(t.client, call, t.resp, resp2)]
            waiting == [t EXCEPT !.pc = "json2", !.resp2 = resp2]
            ts == [tasks EXCEPT ![i] =
                     IF AwaitsJson(t.client, resp2) THEN waiting ELSE settled]
        IN  /\ tasks' = ts
            /\ Resume(ts)
            /\ UNCHANGED <<call, requests, timer, elapsed>>

\* versionResponse.json() of task i settles
SecondJsonSettles(i) ==
    /\ tasks[i].pc = "json2"
    /\ LET t == tasks[i]
           ts == [tasks EXCEPT ![i] =
                    [t EXCEPT !.pc = "settled",
                        !.out = ClientOutcome(t.client, call, t.resp, t.resp2)]]
       IN  /\ tasks' = ts
           /\ Resume(ts)
           /\ UNCHANGED <<call, requests, timer, elapsed>>

\* formatSize(bytes)
CallFormatSize ==
    /\ CanCall
    /\ \E bytes \in ByteCounts :
        Complete([Call("formatSize", << >>, Undefined, "undefined", Undefined)
                     EXCEPT !.bytes = bytes],
                 Fulfilled([text |-> formatSize(bytes)]))

Next ==
    \/ CallSearchRegistry
    \/ CallSearch
    \/ CallSearchAll
    \/ CallSearchCdn
    \/ CallGetBundleSize
    \/ CallCheckVulnerabilities
    \/ CallGetDependencyTree
    \/ CallGetPeerDependencies
    \/ CallAnalyzeDependencies
    \/ CallDetectRegistry
    \/ CallGenerateCDNImports
    \/ CallGetInstallCommand
    \/ CallGetRemoveCommand
    \/ CallGetUpdateCommand
    \/ CallGetCiCommand
    \/ CallGetOutdatedCommand
    \/ CallTool
    \/ CallFormatSize
    \/ \E i \in DOMAIN tasks : FetchSettles(i)
    \/ \E i \in DOMAIN tasks : JsonSettles(i)
    \/ \E i \in DOMAIN tasks : SecondFetchSettles(i)
    \/ \E i \in DOMAIN tasks : SecondJsonSettles(i)
    \/ Tick
    \/ TimerFires

Spec == Init /\ [][Next]_vars

\* ------------------------------------------------------------------- claims

Settled(i) == tasks[i].pc = "settled"
\* the fetch of a search client failed, or its body cannot be mapped
SearchFailed(resp) ==
    \/ resp.kind = "reject"
    \/ ~resp.ok
    \/ resp.body.kind \in {"syntaxError", "null"}
    \/ HasBadItem(OrEmptyList(resp.body.list))
\* the registry a search client is for
ClientTag(client) ==
    CASE client = "searchNpm" -> "npm"
      [] client = "searchJsr" -> "jsr"
      [] client = "searchDeno" -> "deno"

\* C1: whenever searchAll has completed, whatever the three calls did and in
\* whatever order they settled, it has returned (not thrown) a sequence of
\* exactly 3 outcomes tagged npm, jsr, deno in that order.
C1_SearchAllThreeTagged ==
    (call.fn = "searchAll" /\ status # "running") =>
        /\ status = "returned"
        /\ Len(result.list) = 3
        /\ <<result.list[1].registry, result.list[2].registry,
             result.list[3].registry>> = <<"npm", "jsr", "deno">>

\* searchAll returned after npm and deno failed and jsr found a package
C1_Witness ==
    /\ call.fn = "searchAll" /\ status = "returned"
    /\ IsDefined(result.list[1].error)
    /\ result.list[2].packages # << >>
    /\ IsDefined(result.list[3].error)
    /\ tasks[1].resp.kind = "reject" /\ ~tasks[3].resp.ok

\* C2: searchAll issues its three requests before any of them settles; it
\* has not returned while a call is unsettled; a failed call leaves the
\* other calls able to settle; and slot i of the result is the outcome of
\* call i, whose own response alone decides whether it carries an error.
C2_SearchAllIsolation ==
    call.fn = "searchAll" =>
        /\ Len(tasks) = 3 /\ Len(requests) = 3
        /\ \A i \in 1..3 : tasks[i].client = searchAllClients[i]
        /\ status # "thrown"
        /\ (status = "returned" => \A i \in 1..3 : Settled(i))
        /\ ((\A i \in 1..3 : Settled(i)) => status = "returned")
        /\ \A i \in 1..3 :
            /\ tasks[i].pc = "fetch" => ENABLED FetchSettles(i)
            /\ tasks[i].pc = "json" => ENABLED JsonSettles(i)
            /\ status = "returned" =>
                /\ result.list[i] = tasks[i].out.value
                /\ result.list[i].query = call.name
                /\ IsDefined(result.list[i].error) <=> SearchFailed(tasks[i].resp)

\* the npm call has failed while the jsr call awaits its body and the deno
\* call its response
C2_Witness ==
    /\ call.fn = "searchAll" /\ status = "running"
    /\ Settled(1) /\ IsDefined(tasks[1].out.value.error)
    /\ tasks[2].pc = "json" /\ tasks[3].pc = "fetch"

\* C3: a registry search client whose fetch was rejected, answered with a
\* non-2xx status, or carried a body that cannot be mapped does not throw: it
\* returns the query, its own registry tag, no packages and a non-empty error
\* message, which for a non-2xx status contains the status text.
C3_SearchClientFailure ==
    \A i \in DOMAIN tasks :
        (tasks[i].client \in SearchClients /\ Settled(i)
            /\ SearchFailed(tasks[i].resp)) =>
            LET out == tasks[i].out
                resp == tasks[i].resp
            IN  /\ out.state = "fulfilled"
                /\ out.value.query = call.name
                /\ out.value.registry = ClientTag(tasks[i].client)
                /\ out.value.packages = << >>
                /\ IsDefined(out.value.error) /\ out.value.error[1] # << >>
                /\ (resp.kind = "status" /\ ~resp.ok /\ resp.text # << >>) =>
                       Includes(out.value.error[1], resp.text)
                /\ resp.kind = "reject" => out.value.error[1] = resp.text

\* searchDeno returned after a 2xx response whose list holds a null item
C3_Witness ==
    /\ call.fn = "searchDeno" /\ status = "returned"
    /\ tasks[1].resp.ok /\ tasks[1].resp.body.kind = "object"
    /\ HasBadItem(OrEmptyList(tasks[1].resp.body.list))
    /\ IsDefined(result.error) /\ result.packages = << >>

\* the operations whose results carry an optional error beside their data
C4_Ops ==
    SearchClients \cup CdnSearchClients \cup
    {"search", "getBundleSize", "checkVulnerabilities", "getPeerDependencies",
     "analyzeDependencies", "getDependencyTree"}
\* the substantive fields of result r of operation fn are at their zero defaults
C4_Zero(fn, r) ==
    CASE fn \in SearchClients \cup CdnSearchClients \cup {"search"} ->
            r.packages = << >> /\ ~IsDefined(r.total)
      [] fn = "getBundleSize" ->
            /\ r.size.minified = 0 /\ r.size.minifiedGzipped = 0
            /\ ~IsDefined(r.size.minifiedBrotli)
      [] fn = "checkVulnerabilities" ->
            /\ r.vulnerabilities = << >>
            /\ \A k \in DOMAIN r.summary : r.summary[k] = 0
      [] fn = "getPeerDependencies" -> r.peerDependencies = << >>
      [] fn = "analyzeDependencies" ->
            /\ r.totalDependencies = 0 /\ r.directDependencies = 0
            /\ r.devDependencies = 0 /\ r.peerDependencies = 0
            /\ r.optionalDependencies = 0
            /\ r.largestDependencies = << >> /\ ~r.hasVulnerabilities
      [] fn = "getDependencyTree" ->
            /\ ~IsDefined(r.tree.dependencies) /\ ~IsDefined(r.tree.devDependencies)
            /\ ~IsDefined(r.tree.peerDependencies)
            /\ ~IsDefined(r.tree.optionalDependencies)

\* C4: in every result an operation returns (registry search, CDN search,
\* bundle size, vulnerability check, peer dependencies, dependency analysis,
\* dependency tree, and each slot of searchAll), a present error comes with
\* the substantive fields at their zero defaults: no packages, sizes 0,
\* counts 0, dependency lists absent.
C4_ErrorMeansZeroDefaults ==
    status = "returned" =>
        /\ call.fn = "searchAll" =>
            \A i \in 1..Len(result.list) :
                IsDefined(result.list[i].error) => C4_Zero("search", result.list[i])
        /\ call.fn \in C4_Ops =>
            (IsDefined(result.error) => C4_Zero(call.fn, result))

\* getPeerDependencies on a JSR package whose package document arrived with
\* a latest version and whose version request then failed
C4_Witness ==
    /\ call.fn = "getPeerDependencies" /\ status = "returned"
    /\ Len(requests) = 2
    /\ tasks[1].resp.ok /\ tasks[1].resp2.kind = "reject"
    /\ IsDefined(result.error) /\ result.peerDependencies = << >>

CountChar(s, c) == Cardinality({i \in 1..Len(s) : s[i] = c})
\* the detection rules as the specification lists them, first match wins
C5_Rule(name) ==
    IF StartsWith(name, Det.at) /\ CountChar(name, "/") = 1 THEN "jsr"
    ELSE IF \/ Includes(name, Det.denoLand) \/ Includes(name, Det.nestLand)
            \/ StartsWith(name, Det.http) \/ StartsWith(name, Det.https) THEN "deno"
    ELSE IF StartsWith(name, Det.jsrColon) THEN "jsr"
    ELSE IF StartsWith(name, Det.npmColon) THEN "npm"
    ELSE "npm"

C6_SpecifiersRespected ==
    call.fn = "detectRegistry" =>
        /\ StartsWith(call.name, Det.jsrColon) => result.registry = "jsr"
        /\ StartsWith(call.name, Det.npmColon) => result.registry = "npm"

\* the operations that branch on a registry kind
C7_Ops ==
    {"search", "getInstallCommand", "getRemoveCommand", "getUpdateCommand",
     "getCiCommand", "getOutdatedCommand", "getBundleSize", "checkVulnerabilities",
     "getPeerDependencies", "analyzeDependencies", "getDependencyTree",
     "generateCDNImports"}
\* what each operation does when called with the arguments of c
C7_Plan(c) ==
    CASE c.fn \in SearchClients \cup CdnSearchClients -> Await(<<c.fn>>)
      [] c.fn = "search" -> Await(<<searchClient(c.name, c.registry)>>)
      [] c.fn = "searchAll" -> Await(searchAllClients)
      [] c.fn = "getBundleSize" -> getBundleSize(c.name, c.version, c.registry)
      [] c.fn = "checkVulnerabilities" -> checkVulnerabilities(c.name, c.registry)
      [] c.fn = "getDependencyTree" ->
            getDependencyTree(c.name, c.version, c.registry)
      [] c.fn = "getPeerDependencies" -> getPeerDependenciesPlan(c.name, c.registry)
      [] c.fn = "analyzeDependencies" -> analyzeDependenciesPlan(c.name, c.registry)
      [] c.fn = "detectRegistry" ->
            Immediate([packageName |-> c.name, registry |-> detectRegistry(c.name)])
      [] c.fn = "generateCDNImports" ->
            Immediate(generateCDNImports(c.name, c.version, c.registry))
      [] c.fn = "getInstallCommand" ->
            Immediate(getInstallCommand(c.name, c.version, c.dev, c.registry,
                                        c.workspace, c.autoDetect))
      [] c.fn = "getRemoveCommand" ->
            Immediate(getRemoveCommand(c.name, c.registry, c.workspace, c.autoDetect))
      [] c.fn = "getUpdateCommand" ->
            Immediate(getUpdateCommand(c.name, c.registry, c.latest, c.workspace,
                                       c.autoDetect))
      [] c.fn = "getCiCommand" -> Immediate(getCiCommand(c.registry, c.workspace))
      [] c.fn = "getOutdatedCommand" ->
            Immediate(getOutdatedCommand(c.registry, c.workspace))

\* the completed call, had it been made with kind npm
C7_Twin == [call EXCEPT !.registry = "npm"]
\* the requests the npm call issues
C7_TwinRequests ==
    LET clients == C7_Plan(C7_Twin).clients
    IN  [i \in 1..Len(clients) |-> ClientUrl(clients[i], C7_Twin)]
\* what the npm call returns when its requests are answered as this call's were
C7_TwinResult ==
    LET plan == C7_Plan(C7_Twin)
    IN  IF plan.clients = << >> THEN plan.value
        ELSE Finish(C7_Twin,
                    [i \in 1..Len(plan.clients) |->
                        ClientOutcome(plan.clients[i], C7_Twin, tasks[i].resp,
                                      tasks[i].resp2)]).value
\* a result without its registry tag and without the message that names it
C7_Payload(r) ==
    [f \in DOMAIN r \ {"registry", "message"} |-> r[f]]
\* the message of r names r's registry tag after the words the npm message has
C7_MessageNamesTag(r, npm) ==
    "message" \in DOMAIN r =>
        \E k \in 0..Len(npm.message) :
            /\ npm.message = SubSeq(npm.message, 1, k) \o RegText(npm.registry)
            /\ r.message = SubSeq(npm.message, 1, k) \o RegText(r.registry)

\* C7 as stated: a call made with kind unknown issues the same requests and
\* returns the same result, field for field, as the call made with kind npm.
C7_UnknownIdenticalToNpm ==
    (status = "returned" /\ call.fn \in C7_Ops /\ call.registry = "unknown") =>
        /\ Len(tasks) = Len(C7_Plan(C7_Twin).clients)
        /\ requests = C7_TwinRequests
        /\ result = C7_TwinResult

\* C7, amended: a call made with kind unknown issues the same requests and
\* returns the same command string, URLs and payload as the call made with
\* kind npm; the results differ at most in the registry tag, which is npm or
\* unknown, and in the message, which names that tag.
C7_UnknownAsNpmButTag ==
    (status = "returned" /\ call.fn \in C7_Ops /\ call.registry = "unknown") =>
        /\ Len(tasks) = Len(C7_Plan(C7_Twin).clients)
        /\ requests = C7_TwinRequests
        /\ C7_Payload(result) = C7_Payload(C7_TwinResult)
        /\ result.registry \in {"npm", "unknown"}
        /\ C7_TwinResult.registry = "npm"
        /\ C7_MessageNamesTag(result, C7_TwinResult)

\* getPeerDependencies with kind unknown whose request was rejected: the
\* error result is tagged unknown
C7_Witness ==
    /\ call.fn = "getPeerDependencies" /\ status = "returned"
    /\ call.registry = "unknown"
    /\ tasks[1].resp.kind = "reject"
    /\ IsDefined(result.error) /\ result.registry = "unknown"

\* the operations whose result carries a registry tag
C8_Ops == C7_Ops \cup SearchClients
\* the kind a call resolves: the explicit argument, else the detected kind,
\* else the default
C8_Resolved(c) ==
    CASE c.fn \in SearchClients -> ClientTag(c.fn)
      [] c.registry # "undefined" -> c.registry
      [] c.fn \in {"getCiCommand", "getOutdatedCommand"} -> "npm"
      [] c.fn \in {"getInstallCommand", "getRemoveCommand"} ->
            IF c.autoDetect THEN detectRegistry(c.name) ELSE "npm"
      [] c.fn = "getUpdateCommand" ->
            IF c.name # << >> /\ c.autoDetect THEN detectRegistry(c.name) ELSE "npm"
      [] OTHER -> detectRegistry(c.name)

\* C8: the registry field of every returned result equals the kind the call
\* resolved (the explicit argument when given, otherwise the detected or
\* defaulted kind), on success and on error paths alike.
C8_RegistryIsResolvedKind ==
    (status = "returned" /\ call.fn \in C8_Ops) =>
        result.registry = C8_Resolved(call)

\* the package spec of a generateCDNImports call: name@version or name
C9_Pkg ==
    IF Truthy(call.version) THEN call.name \o Det.at \o call.version[1] ELSE call.name

\* C9: for kind npm or unknown generateCDNImports returns exactly 10 entries
\* in the order unpkg x3, jsdelivr x3, skypack x2, esm.sh x2, every URL
\* embedding name@version (name when no version is given), and recommends
\* the first skypack entry, the 7th of the list.
C9_NpmCdnImports ==
    (call.fn = "generateCDNImports" /\ call.registry \in {"npm", "unknown"}) =>
        /\ Len(result.imports) = 10
        /\ [i \in 1..10 |-> result.imports[i].provider] =
              <<"unpkg", "unpkg", "unpkg", "jsdelivr", "jsdelivr", "jsdelivr",
                "skypack", "skypack", "esm.sh", "esm.sh">>
        /\ \A i \in 1..10 :
              /\ Includes(result.imports[i].url, C9_Pkg)
              /\ ~Truthy(call.version) =>
                     CountChar(result.imports[i].url, "@") = CountChar(call.name, "@")
        /\ result.recommended = Some(result.imports[7])
        /\ result.imports[7].provider = "skypack"

\* kind unknown with a version
C9_Witness ==
    /\ call.fn = "generateCDNImports" /\ status = "returned"
    /\ call.registry = "unknown" /\ call.version = Some(<<"1">>)
    /\ call.name = <<"a">>
    /\ Len(result.imports) = 10

\* a name with a single leading '@' removed
C10_Stripped(name) == IF name # << >> /\ name[1] = "@" THEN Tail(name) ELSE name

\* C10: for kind deno the list is a deno.land entry with the name as its URL
\* exactly when the name starts with 'https://deno.land', followed by
\* exactly one esm.sh entry, and the recommendation is the deno.land entry
\* when present, else the esm.sh entry.  For kind jsr the list is a jsr.io
\* entry then an esm.sh entry, both ending in the name without one leading
\* '@' followed by '@' and the version (or 'latest'); jsr.io is recommended.
C10_DenoJsrCdnImports ==
    (call.fn = "generateCDNImports" /\ call.named) =>
        /\ result.registry = "deno" =>
            LET imps == result.imports
                direct == StartsWith(call.name, Cdn.httpsDenoLand)
            IN  /\ Len(imps) = (IF direct THEN 2 ELSE 1)
                /\ direct => imps[1].provider = "deno.land" /\ imps[1].url = call.name
                /\ imps[Len(imps)].provider = "esm.sh"
                /\ Cardinality({i \in 1..Len(imps) : imps[i].provider = "deno.land"})
                       = (IF direct THEN 1 ELSE 0)
                /\ result.recommended = Some(imps[1])
        /\ result.registry = "jsr" =>
            LET imps == result.imports
                tail == C10_Stripped(call.name) \o Det.at
                            \o (IF Truthy(call.version) THEN call.version[1] ELSE Cdn.latest)
            IN  /\ Len(imps) = 2
                /\ imps[1].provider = "jsr.io" /\ imps[2].provider = "esm.sh"
                /\ imps[1].url = Cdn.jsrIo \o tail
                /\ imps[2].url = Cdn.esmShJsr \o tail
                /\ result.recommended = Some(imps[1])

\* kind deno with a name that merely contains deno.land: no direct entry
C10_Witness ==
    /\ call.fn = "generateCDNImports" /\ status = "returned"
    /\ result.registry = "deno"
    /\ Includes(call.name, Det.denoLand) /\ ~StartsWith(call.name, Cdn.httpsDenoLand)
    /\ Len(result.imports) = 1

\* seq ends with tail
C11_EndsWith(seq, tail) ==
    /\ Len(seq) >= Len(tail)
    /\ SubSeq(seq, Len(seq) - Len(tail) + 1, Len(seq)) = tail

\* <name>[@version]
C11_Target == call.name \o (IF Truthy(call.version) THEN Det.at \o call.version[1] ELSE << >>)

\* the registry an install or remove call works with
C11_Registry ==
    IF call.registry # "undefined" THEN call.registry
    ELSE IF call.autoDetect THEN detectRegistry(call.name) ELSE "npm"

\* the command the install operation is to suggest, before any workspace
\* prefix
C11_Command ==
    CASE C11_Registry \in {"npm", "unknown"} ->
            Pkm.npmInstall \o C11_Target \o (IF call.dev THEN Pkm.saveDev ELSE Pkm.save)
      [] C11_Registry = "jsr" ->
            Pkm.denoAdd \o C11_Target \o (IF call.dev THEN Pkm.dev ELSE << >>)
      [] C11_Registry = "deno" -> Pkm.denoAdd \o C11_Target

\* C11: getInstallCommand returns, for npm and unknown,
\* 'npm install <name>[@version] --save-dev' when dev is set and
\* '... --save' otherwise; for jsr 'deno add <name>[@version]' with ' --dev'
\* appended exactly when dev is set; for deno 'deno add <name>[@version]'
\* whatever dev is.  The command is only returned as text: the operation
\* starts no client and issues no request.
C11_InstallCommand ==
    (call.fn = "getInstallCommand" /\ call.named /\ C11_Registry \in RegistryType) =>
        /\ status = "returned"
        /\ tasks = << >> /\ requests = << >>
        /\ IsDefined(result.command)
        /\ C11_EndsWith(result.command[1], C11_Command)
        /\ ~Truthy(call.workspace) => result.command[1] = C11_Command

\* a development install from deno with a version: no dev suffix
C11_Witness ==
    /\ call.fn = "getInstallCommand" /\ status = "returned"
    /\ call.registry = "deno" /\ call.dev /\ call.version = Some(<<"1">>)
    /\ call.name = <<"a">> /\ ~Truthy(call.workspace)
    /\ result.command = Some(Pkm.denoAdd \o <<"a", "@", "1">>)

\* C12: install and remove work with opts.registry when it is given, else
\* with the registry detected from the package name when autoDetect is
\* set, else with npm; update works with opts.registry when given, else
\* detects only when a package name is present and autoDetect is set, else
\* npm.  A given opts.registry is the result's registry whatever the name
\* would be detected as.
C12_RegistryResolution ==
    /\ (call.fn \in {"getInstallCommand", "getRemoveCommand"} /\ call.named) =>
           result.registry = C11_Registry
    /\ call.fn = "getUpdateCommand" =>
           result.registry =
               (IF call.registry # "undefined" THEN call.registry
                ELSE IF call.name # << >> /\ call.autoDetect
                THEN detectRegistry(call.name)
                ELSE "npm")
    /\ (call.fn \in {"getInstallCommand", "getRemoveCommand", "getUpdateCommand"}
          /\ call.registry # "undefined") => result.registry = call.registry

\* registry npm given for a name that detection takes for jsr
C12_Witness ==
    /\ call.fn = "getRemoveCommand" /\ status = "returned"
    /\ call.registry = "npm" /\ call.autoDetect
    /\ detectRegistry(call.name) = "jsr"
    /\ result.registry = "npm"
    /\ result.command = Some(Pkm.npmUninstall \o call.name)

\* "npm ci"
C13_NpmCi ==
    <<"n","p","m"," ","c","i">>

\* "deno cache --reload deps.ts || deno cache --reload import_map.json"
C13_DenoCi ==
    <<"d","e","n","o"," ","c","a","c","h","e"," ","-","-","r","e","l","o",
      "a","d"," ","d","e","p","s",".","t","s"," ","|","|"," ","d","e","n",
      "o"," ","c","a","c","h","e"," ","-","-","r","e","l","o","a","d"," ",
      "i","m","p","o","r","t","_","m","a","p",".","j","s","o","n">>

\* "npm outdated --json"
C13_NpmOutdated ==
    <<"n","p","m"," ","o","u","t","d","a","t","e","d"," ","-","-","j","s",
      "o","n">>

\* "deno outdated --json"
C13_DenoOutdated ==
    <<"d","e","n","o"," ","o","u","t","d","a","t","e","d"," ","-","-","j",
      "s","o","n">>

\* the registry a ci or outdated call works with
C13_Registry == IF call.registry = "undefined" THEN "npm" ELSE call.registry

\* C13: the ci operation yields 'npm ci' for npm and unknown (and when no
\* registry is given) and 'deno cache --reload deps.ts || deno cache
\* --reload import_map.json' for jsr and deno; the outdated operation
\* yields 'npm outdated --json' for npm and unknown (and when no registry is
\* given) and 'deno outdated --json' for jsr and deno.
C13_CiAndOutdatedCommands ==
    LET expected ==
            IF call.fn = "getCiCommand"
            THEN (IF C13_Registry \in {"jsr", "deno"} THEN C13_DenoCi ELSE C13_NpmCi)
            ELSE (IF C13_Registry \in {"jsr", "deno"} THEN C13_DenoOutdated
                  ELSE C13_NpmOutdated)
        command == IF call.fn = "getCiCommand" THEN result.command
                   ELSE Some(result.command)
    IN  (call.fn \in {"getCiCommand", "getOutdatedCommand"}
            /\ C13_Registry \in RegistryType) =>
            /\ status = "returned"
            /\ IsDefined(command)
            /\ C11_EndsWith(command[1], expected)
            /\ ~Truthy(call.workspace) => command[1] = expected

\* ci for jsr without a workspace
C13_Witness ==
    /\ call.fn = "getCiCommand" /\ status = "returned"
    /\ call.registry = "jsr" /\ ~Truthy(call.workspace)
    /\ result.success /\ result.command = Some(C13_DenoCi)

C14_Ops ==
    {"getInstallCommand", "getRemoveCommand", "getUpdateCommand", "getCiCommand",
     "getOutdatedCommand"}

\* the command, if any, that the call c returns
C14_Command(c) ==
    CASE c.fn = "getInstallCommand" ->
            getInstallCommand(c.name, c.version, c.dev, c.registry, c.workspace,
                              c.autoDetect).command
      [] c.fn = "getRemoveCommand" ->
            getRemoveCommand(c.name, c.registry, c.workspace, c.autoDetect).command
      [] c.fn = "getUpdateCommand" ->
            getUpdateCommand(c.name, c.registry, c.latest, c.workspace,
                             c.autoDetect).command
      [] c.fn = "getCiCommand" -> getCiCommand(c.registry, c.workspace).command
      [] c.fn = "getOutdatedCommand" ->
            Some(getOutdatedCommand(c.registry, c.workspace).command)

\* C14: install, remove, update, ci and outdated apply one workspace rule
\* for every registry: with a non-empty workspace w the command is 'cd w && '
\* followed by exactly the command the same call returns without a
\* workspace; without a workspace the command has no prefix.
C14_WorkspacePrefix ==
    (call.fn \in C14_Ops /\ status = "returned") =>
        LET command == IF call.fn = "getOutdatedCommand" THEN Some(result.command)
                       ELSE result.command
            bare == C14_Command([call EXCEPT !.workspace = Undefined])
            cd == <<"c", "d", " ">>
        IN  /\ IsDefined(command) <=> IsDefined(bare)
            /\ (IsDefined(command) /\ Truthy(call.workspace)) =>
                   command[1] = cd \o call.workspace[1] \o <<" ", "&", "&", " ">> \o bare[1]
            /\ (IsDefined(command) /\ ~Truthy(call.workspace)) =>
                   /\ command = bare
                   /\ ~StartsWith(command[1], cd)

\* an update of every package for deno inside workspace w
C14_Witness ==
    /\ call.fn = "getUpdateCommand" /\ status = "returned"
    /\ call.registry = "deno" /\ call.name = << >> /\ call.workspace = Some(<<"w">>)
    /\ result.command = Some(<<"c", "d", " ", "w", " ", "&", "&", " ">> \o Pkm.denoUpdate)

C15_Ops == {"getInstallCommand", "getRemoveCommand", "getUpdateCommand", "getCiCommand"}

\* C15: in install, remove, update and ci a registry value outside npm, jsr,
\* deno and unknown raises no fault: the operation returns success false,
\* an error that names the unsupported registry, and no command.  Every
\* result with success true carries a command and no error: success,
\* command present and error absent always coincide.
C15_UnsupportedRegistryIsAResult ==
    (call.fn \in C15_Ops /\ (call.named \/ call.registry # "undefined")) =>
        /\ status = "returned"
        /\ result.success <=> IsDefined(result.command)
        /\ result.success <=> ~IsDefined(result.error)
        /\ call.registry \notin OptRegistries =>
              /\ ~result.success
              /\ result.error =
                    Some(<<"U", "n", "s", "u", "p", "p", "o", "r", "t", "e", "d", " ",
                           "r", "e", "g", "i", "s", "t", "r", "y", ":", " ">>
                         \o <<"y", "a", "r", "n">>)
              /\ result.registry = call.registry

\* install asked for a registry outside the type
C15_Witness ==
    /\ call.fn = "getInstallCommand" /\ status = "returned"
    /\ call.registry = "yarn" /\ call.name = <<"a">>
    /\ ~result.success /\ ~IsDefined(result.command) /\ IsDefined(result.error)
    /\ result.message = Pkm.failedInstall

\* the tools whose handler passes a registry on to the operation
C16_RegistryTools ==
    {"check_bundle_size", "check_vuln", "install", "remove", "update",
     "check_outdated", "peer_deps", "dependency_tree", "analyze_dependency", "ci",
     "get_cdn_imports"}

\* the registry a tool call worked with: the one its search client queries,
\* or the one the operation was handed
C16_RegistryUsed ==
    IF call.tool = "search_packages" THEN ClientTag(tasks[1].client) ELSE call.registry

\* the part of C16 that concerns the tools taking a registry argument: with
\* a valid setting and no registry argument they work with the setting (and
\* the command builders are told not to detect); a registry argument wins
C16_RegistryToolsUseDefault ==
    call.tool \in C16_RegistryTools =>
        /\ (call.defaultRegistry # "undefined" /\ call.argRegistry = "undefined") =>
              /\ call.registry = call.defaultRegistry
              /\ call.tool \in {"install", "remove", "update"} => ~call.autoDetect
              /\ status = "returned" => result.registry = call.defaultRegistry
        /\ call.argRegistry # "undefined" => call.registry = call.argRegistry

\* C16: when the default-registry setting is valid (npm, jsr or deno), every
\* tool call that omits an explicit registry works with that registry,
\* which takes priority over detection from the package name or query; an
\* explicit registry argument on the call wins over the setting.
C16_DefaultRegistryUsed ==
    /\ C16_RegistryToolsUseDefault
    /\ (call.tool = "search_packages" /\ call.named
            /\ call.defaultRegistry # "undefined") =>
           C16_RegistryUsed = call.defaultRegistry

\* the handler has returned for a tool call
C17_Returned == call.tool # "none" /\ status \in {"returned", "thrown"}

\* the part of C17 that concerns a name outside the registered tools: the
\* envelope is flagged as an error, its text is 'Error: Unknown tool: <name>',
\* and nothing was requested
C17_UnknownToolEnvelope ==
    (call.tool \notin Tools \cup {"none"}) =>
        /\ status = "thrown"
        /\ response.isError
        /\ Len(response.content) = 1
        /\ response.content[1].type = "text"
        /\ IsDefined(response.content[1].text)
        /\ Len(response.content[1].text[1]) = 1
        /\ response.content[1].text[1][1].kind = "literal"
        /\ response.content[1].text[1][1].of =
              <<"E", "r", "r", "o", "r", ":", " ", "U", "n", "k", "n", "o", "w", "n",
                " ", "t", "o", "o", "l", ":", " ">> \o <<call.tool>>
        /\ tasks = << >> /\ requests = << >>

\* C17: every tool call returns an envelope whose content is a single text
\* payload; a call that names an operation outside the registered tools
\* returns an envelope flagged as an error with the text
\* 'Error: Unknown tool: <name>', and issues no request.
C17_SingleTextEnvelope ==
    /\ C17_Returned =>
          /\ Len(response.content) = 1
          /\ response.content[1].type = "text"
          /\ IsDefined(response.content[1].text)
    /\ C17_UnknownToolEnvelope

\* an unregistered name was called
C17_UnknownToolCalled == C17_Returned /\ call.tool = "x" /\ response.isError

\* the kinds of the pieces of the text the handler returned
C18_Kinds ==
    IF IsDefined(response.content[1].text)
    THEN {response.content[1].text[1][i].kind : i \in DOMAIN response.content[1].text[1]}
    ELSE {}

\* the part of C18 that holds: formatted text is never returned without the
\* JSON serialization after it
C18_FormattedNeverAlone ==
    (C17_Returned /\ "formatted" \in C18_Kinds) =>
        LET text == response.content[1].text[1]
        IN  /\ Len(text) = 3
            /\ text[1].kind = "formatted" /\ text[3].kind = "json"
            /\ text[1].of = result /\ text[3].of = result

\* C18: every tool returns its response in two formats together: the text
\* of every tool's response holds both the human-readable formatted text
\* and the JSON serialization of the structured result, never one without
\* the other.
C18_BothFormatsTogether ==
    (C17_Returned /\ call.tool \in Tools /\ ~response.isError) =>
        /\ "formatted" \in C18_Kinds
        /\ "json" \in C18_Kinds

\* a tool that returns both formats has returned
C18_BothReturned ==
    /\ C17_Returned /\ call.tool = "check_bundle_size" /\ ~response.isError
    /\ C18_Kinds = {"formatted", "literal", "json"}

\* the metadata fetch of the dependency tree failed: the fetch rejected, the
\* status was not 2xx, or the requested version is not in the document
C19_FetchFailed(resp) ==
    \/ resp.kind = "reject"
    \/ resp.kind = "status" /\ ~resp.ok
    \/ /\ resp.kind = "status" /\ resp.ok /\ resp.body.kind = "object"
       /\ Truthy(call.version)
       /\ \/ ~IsDefined(resp.body.versions)
          \/ \A i \in DOMAIN resp.body.versions[1] :
                resp.body.versions[1][i].v # call.version[1]

\* C19: when the npm metadata fetch of the dependency tree fails (a 404 or
\* other non-2xx status, a transport error, or the requested version missing
\* from the metadata document), the result carries a non-empty error, root is
\* the requested name, and the tree node has the requested name and the
\* requested version, or 'unknown' when none was requested; neither is
\* absent.
C19_FailedTreeKeepsRequest ==
    (call.fn = "getDependencyTree" /\ tasks # << >> /\ Settled(1)
        /\ C19_FetchFailed(tasks[1].resp)) =>
        /\ status = "returned"
        /\ IsDefined(result.error) /\ result.error[1] # << >>
        /\ result.root = call.name
        /\ result.tree.name = call.name
        /\ result.tree.version =
              (IF Truthy(call.version) THEN call.version[1]
               ELSE <<"u", "n", "k", "n", "o", "w", "n">>)

\* version 1 was requested and the document holds no versions
C19_Witness ==
    /\ call.fn = "getDependencyTree" /\ status = "returned"
    /\ call.version = Some(<<"1">>) /\ call.name = <<"a">>
    /\ tasks # << >>
    /\ tasks[1].resp.ok /\ tasks[1].resp.body.kind = "object"
    /\ tasks[1].resp.body.versions = Some(<< >>)
    /\ IsDefined(result.error)
    /\ result.tree.name = <<"a">> /\ result.tree.version = <<"1">>

\* the registry an inspector works with
C20_Registry ==
    IF call.registry # "undefined" THEN call.registry ELSE detectRegistry(call.name)

\* C20: for jsr and deno the dependency tree, the dependency analysis and
\* the bundle size are not attempted: each issues no request and returns at
\* once a stub (a tree node with only name and version; all dependency
\* counts 0; all byte sizes 0) tagged with that registry and carrying an
\* explanatory error.
C20_JsrDenoStubs ==
    (call.fn \in {"getDependencyTree", "analyzeDependencies", "getBundleSize"}
        /\ C20_Registry \in {"jsr", "deno"}) =>
        /\ status = "returned"
        /\ tasks = << >> /\ requests = << >>
        /\ result.registry = C20_Registry
        /\ IsDefined(result.error) /\ result.error[1] # << >>
        /\ call.fn = "getDependencyTree" =>
              /\ result.root = call.name
              /\ result.tree.name = call.name
              /\ result.tree.version =
                    (IF Truthy(call.version) THEN call.version[1] ELSE Det.regUnknown)
              /\ ~IsDefined(result.tree.dependencies)
              /\ ~IsDefined(result.tree.devDependencies)
              /\ ~IsDefined(result.tree.peerDependencies)
              /\ ~IsDefined(result.tree.optionalDependencies)
              /\ C11_EndsWith(result.error[1], RegText(C20_Registry))
        /\ call.fn = "analyzeDependencies" =>
              /\ result.package = call.name
              /\ result.totalDependencies = 0 /\ result.directDependencies = 0
              /\ result.devDependencies = 0 /\ result.peerDependencies = 0
              /\ result.optionalDependencies = 0
              /\ C11_EndsWith(result.error[1], RegText(C20_Registry))
        /\ call.fn = "getBundleSize" =>
              /\ result.package = call.name
              /\ result.size.minified = 0 /\ result.size.minifiedGzipped = 0
              /\ ~IsDefined(result.size.minifiedBrotli)

\* the analysis of a scoped name, detected as jsr
C20_Witness ==
    /\ call.fn = "analyzeDependencies" /\ status = "returned"
    /\ call.registry = "undefined" /\ call.name = <<"@", "a", "/", "a">>
    /\ result.registry = "jsr" /\ result.totalDependencies = 0
    /\ IsDefined(result.error) /\ requests = << >>

C22_TimeoutMessage ==
    <<"R","e","q","u","e","s","t"," ","t","i","m","e","o","u","t",":"," ",
      "B","u","n","d","l","e","p","h","o","b","i","a"," ","A","P","I"," ",
      "t","o","o","k"," ","t","o","o"," ","l","o","n","g"," ","t","o"," ",
      "r","e","s","p","o","n","d">>

\* an npm bundle-size request was issued
C22_NpmBundleCall == call.fn = "getBundleSize" /\ tasks # << >>

\* C22: the npm bundle-size fetch is bounded by a 15-second timeout.  A
\* request still without a response 15 seconds after it was issued is
\* aborted, and the call returns (never throws) a zero-sized result whose
\* error is 'Request timeout: Bundlephobia API took too long to respond', a
\* message no non-2xx status or network failure produces; when the response
\* arrives before expiry no abort is issued.
C22_BundleTimeout ==
    C22_NpmBundleCall =>
        /\ status # "thrown"
        /\ timer = "fired" => elapsed >= 15000
        /\ timer = "armed" => tasks[1].pc = "fetch" /\ elapsed < 15000 + TickMs
        /\ (Settled(1) /\ timer = "fired") =>
              /\ status = "returned"
              /\ result.error = Some(C22_TimeoutMessage)
              /\ result.size.minified = 0 /\ result.size.minifiedGzipped = 0
              /\ ~IsDefined(result.size.minifiedBrotli)
        /\ tasks[1].pc # "fetch" =>
              (timer = "fired" <=> tasks[1].resp.errName = "AbortError")
        /\ (Settled(1) /\ timer # "fired") =>
              /\ timer = "cleared"
              /\ result.error # Some(C22_TimeoutMessage)

\* the request was aborted at 15 seconds and the call returned
C22_Witness ==
    /\ C22_NpmBundleCall /\ status = "returned"
    /\ timer = "fired" /\ elapsed = 15000
    /\ result.error = Some(C22_TimeoutMessage)
    /\ result.size.minified = 0

\* one step of an npm bundle-size call, seen from its abort timer
C29_Step ==
    C22_NpmBundleCall' =>
        /\ timer' = "armed" => tasks'[1].pc = "fetch"
        /\ tasks'[1].pc = "json" => timer' = "cleared"
        /\ (Settled(1))' => timer' \in {"cleared", "fired"}
        /\ (timer' = "fired" /\ timer # "fired") =>
              timer = "armed" /\ tasks[1].pc = "fetch" /\ tasks'[1].pc = "fetch"
        /\ timer = "fired" => timer' = "fired"
        /\ timer = "cleared" => timer' = "cleared"

\* C29: the abort timer is cancelled on every path on which the fetch
\* settles (response, network error, abort), so no timer is left armed once
\* the call has returned; the abort fires at most once and only while the
\* response headers are awaited; once they arrive the timeout no longer
\* applies, so reading and parsing the body is not bounded by the 15 seconds.
C29_TimerCancelled == [][C29_Step]_vars

\* the body is still being read 20 seconds after the request was issued
C29_Witness ==
    /\ C22_NpmBundleCall
    /\ tasks[1].pc = "json" /\ timer = "cleared"
    /\ elapsed > 15000

\* the provider tags in the order searchAllCDNs returns them
C23_Providers == <<"cdnjs", "unpkg", "jsdelivr", "skypack", "esm.sh">>

\* the URL prefix each provider builds its package links from
C23_Base ==
    <<CdnSch.cdnjsLibs, CdnSch.unpkgBase, CdnSch.jsdelivrBase, CdnSch.skypackBase,
      CdnSch.esmShBase>>

\* C23: searchAllCDNs launches the five provider searches concurrently and,
\* whatever the combination of successes and failures and whatever the order
\* in which they complete, returns exactly 5 results tagged cdnjs, unpkg,
\* jsdelivr, skypack, esm.sh in that order, each slot holding its own
\* provider's outcome; a failing provider yields an empty package list with
\* an error in its own slot only.
C23_FiveSlotsInOrder ==
    call.fn = "searchAllCDNs" =>
        /\ status # "thrown"
        /\ Len(tasks) = 5 /\ Len(requests) = 5
        /\ status = "returned" =>
              /\ \A i \in 1..5 : Settled(i)
              /\ Len(result.list) = 5
              /\ \A i \in 1..5 :
                    LET slot == result.list[i]
                    IN  /\ slot.provider = C23_Providers[i]
                        /\ slot = tasks[i].out.value
                        /\ tasks[i].resp.kind = "reject" =>
                              slot.packages = << >> /\ IsDefined(slot.error)
                        /\ tasks[i].resp.kind # "reject" =>
                              /\ ~IsDefined(slot.error)
                              /\ Len(slot.packages) = 1
                              /\ StartsWith(slot.packages[1].url, C23_Base[i])

\* cdnjs and esm.sh answered, unpkg failed: the error is in the second slot
C23_Witness ==
    /\ call.fn = "searchAllCDNs" /\ status = "returned"
    /\ tasks[1].resp.kind # "reject" /\ tasks[5].resp.kind # "reject"
    /\ tasks[2].resp.kind = "reject"
    /\ IsDefined(result.list[2].error) /\ ~IsDefined(result.list[1].error)
    /\ Len(result.list[5].packages) = 1

\* the units of the specification, smallest first
C24_Units == << <<"B">>, <<"K", "B">>, <<"M", "B">>, <<"G", "B">> >>

\* text is a decimal number with exactly two decimal places
C24_TwoDecimals(text) ==
    LET Digits == {"0", "1", "2", "3", "4", "5", "6", "7", "8", "9"}
        n == Len(text)
    IN  /\ n >= 4
        /\ text[n - 2] = "."
        /\ \A j \in (1..n) \ {n - 2} : text[j] \in Digits

\* formatSize was called with a count that has as many base-1024 digits as
\* the exponent says, and returned
C24_Formatted(exponents) ==
    /\ call.fn = "formatSize" /\ status = "returned"
    /\ Len(call.bytes) - 1 \in exponents

\* C24: formatSize converts every non-negative integer byte count to a
\* string in one of the units B, KB, MB, GB, base 1024, with two decimal
\* places, choosing the largest unit whose size does not exceed the value;
\* 0 gives '0 B' and 1024 gives '1.00 KB'.  The unit is always one of B, KB,
\* MB, GB.
C24_FormatSize ==
    C24_Formatted(0..4) =>
        /\ call.bytes = <<0>> => result.text = <<"0", " ", "B">>
        /\ call.bytes = <<1, 0>> => result.text = <<"1", ".", "0", "0", " ", "K", "B">>
        /\ call.bytes # <<0>> =>
              LET i == IF Len(call.bytes) > 4 THEN 4 ELSE Len(call.bytes)
                  unit == C24_Units[i]
                  text == result.text
              IN  /\ C11_EndsWith(text, <<" ">> \o unit)
                  /\ C24_TwoDecimals(SubSeq(text, 1, Len(text) - Len(unit) - 1))

\* a count of at least 1024^4 bytes was formatted
C24_TerabyteFormatted ==
    /\ C24_Formatted({4})
    /\ C11_EndsWith(result.text, Det.undefined)

\* a call of a registered tool has come back from the handler
C25_ToolAnswered == call.tool \in Tools /\ status \in {"returned", "thrown"}

\* C25: no exception crosses a component boundary.  For every registered
\* tool and every argument record, one that omits a required argument such
\* as packageName or query included, the operation catches its own failures
\* and returns a result value; the handler's error envelope (isError) is
\* produced only for an unrecognized tool name.
C25_ErrorEnvelopeOnlyForUnknownTool ==
    /\ C25_ToolAnswered => status = "returned" /\ ~response.isError
    /\ (call.tool # "none" /\ status # "idle" /\ status # "running"
            /\ response.isError) => call.tool \notin Tools

\* detect_registry was called without packageName and the handler answered
\* with the error envelope
C25_MissingArgumentThrows ==
    /\ call.tool = "detect_registry" /\ ~call.named
    /\ status = "thrown" /\ response.isError

\* with packageName or query present, the error envelope is kept for
\* unrecognized tool names
C25_NamedCallsReturn ==
    (C25_ToolAnswered /\ call.named) => status = "returned" /\ ~response.isError

\* the number of requests issued so far by the call in progress
C26_Requests == Len(requests)

\* the call has started on the npm path of a fetch-backed operation
C26_NpmPath == status # "idle" /\ call.named /\ C20_Registry \in {"npm", "unknown"}

\* C26: there are no retries.  One call of a registry or CDN search client
\* issues exactly 1 request, searchAll exactly 3, searchAllCDNs exactly 5
\* (one to cdnjs and four to the npm search endpoint), an npm dependency,
\* vulnerability or bundle-size call exactly 1, a jsr peer-dependency call
\* at most 2.
C26_NoRetries ==
    /\ call.fn \in SearchClients \cup CdnSearchClients => C26_Requests = 1
    /\ (call.fn = "search" /\ (call.named \/ call.registry # "undefined")) =>
          C26_Requests = 1
    /\ call.fn = "searchAll" => C26_Requests = 3
    /\ call.fn = "searchAllCDNs" =>
          /\ C26_Requests = 5
          /\ StartsWith(requests[1], CdnSch.cdnjsSearch)
          /\ \A i \in 2..5 : StartsWith(requests[i], CdnSch.npmSearchText)
    /\ (call.fn \in {"getDependencyTree", "analyzeDependencies",
                     "checkVulnerabilities", "getBundleSize"} /\ C26_NpmPath) =>
          C26_Requests = 1
    /\ (call.fn = "getPeerDependencies" /\ status # "idle" /\ call.named) =>
          CASE C20_Registry \in {"npm", "unknown"} -> C26_Requests = 1
            [] C20_Registry = "jsr" -> C26_Requests \in {1, 2}
            [] OTHER -> C26_Requests = 0

\* searchAllCDNs has returned after the cdnjs request failed, with five
\* requests issued in all
C26_Witness ==
    /\ call.fn = "searchAllCDNs" /\ status = "returned"
    /\ tasks[1].resp.kind = "reject"
    /\ C26_Requests = 5

\* a jsr peer-dependency lookup is in progress or over
C27_JsrPeerCall ==
    /\ call.fn = "getPeerDependencies" /\ call.named /\ tasks # << >>
    /\ C20_Registry = "jsr"

\* the fetch that gave resp failed: it was rejected or answered non-2xx
C27_Failed(resp) == resp.kind = "reject" \/ (resp.kind = "status" /\ ~resp.ok)

\* C27: for jsr the two fetches of getPeerDependencies are strictly in
\* sequence: the version-document request is issued only after the
\* package-summary request has returned 2xx, and uses the latestVersion read
\* from it; if the first fetch fails no second request is issued; if either
\* fetch fails the mapping is empty, never partial data.
C27_JsrFetchesInSequence ==
    C27_JsrPeerCall =>
        LET t == tasks[1]
        IN  /\ t.pc \in {"fetch", "json"} => Len(requests) = 1
            /\ C27_Failed(t.resp) => Len(requests) = 1
            /\ Len(requests) = 2 =>
                  /\ t.resp.kind = "status" /\ t.resp.ok
                  /\ t.pc \in {"fetch2", "json2", "settled"}
                  /\ requests[2] = requests[1] \o Det.slash
                                       \o TemplateText(t.resp.body.latestVersion)
            /\ t.pc \in {"fetch2", "json2"} => Len(requests) = 2
            /\ (Settled(1) /\ (C27_Failed(t.resp) \/ C27_Failed(t.resp2))) =>
                  status = "returned" /\ result.peerDependencies = << >>

\* the version document of the latestVersion read from the package summary
\* was asked for, and that second fetch was rejected
C27_Witness ==
    /\ C27_JsrPeerCall /\ status = "returned"
    /\ Len(requests) = 2
    /\ IsDefined(tasks[1].resp.body.latestVersion)
    /\ tasks[1].resp2.kind = "reject"
    /\ result.peerDependencies = << >>

\* C30: the two failure points of the jsr peer-dependency lookup are
\* reported differently: a failed or non-2xx package-summary fetch gives an
\* empty mapping with an error, a non-2xx version-document fetch gives an
\* empty mapping with no error; for kind deno the mapping is always empty,
\* with no error and no request.
C30_FailurePointsDiffer ==
    /\ (C27_JsrPeerCall /\ Settled(1)) =>
          LET t == tasks[1]
          IN  /\ status = "returned"
              /\ C27_Failed(t.resp) =>
                    result.peerDependencies = << >> /\ IsDefined(result.error)
              /\ (t.resp2.kind = "status" /\ ~t.resp2.ok) =>
                    result.peerDependencies = << >> /\ ~IsDefined(result.error)
    /\ (call.fn = "getPeerDependencies" /\ status # "idle"
            /\ (call.named \/ call.registry # "undefined")
            /\ C20_Registry = "deno") =>
          /\ status = "returned"
          /\ tasks = << >> /\ requests = << >>
          /\ result.peerDependencies = << >> /\ ~IsDefined(result.error)

\* the version document was answered non-2xx and the lookup returned an
\* empty mapping without an error
C30_Witness ==
    /\ C27_JsrPeerCall /\ status = "returned"
    /\ tasks[1].resp2.kind = "status" /\ ~tasks[1].resp2.ok
    /\ result.peerDependencies = << >> /\ ~IsDefined(result.error)

\* C28: for every registry kind and every name and version,
\* generateCDNImports returns a non-empty import list and a defined
\* recommended entry that is itself an element of the list.
C28_RecommendedIsAnImport ==
    (call.fn = "generateCDNImports" /\ status = "returned"
        /\ result.registry \in RegistryType) =>
        /\ result.imports # << >>
        /\ IsDefined(result.recommended)
        /\ \E i \in 1..Len(result.imports) :
              result.imports[i] = result.recommended[1]

\* a deno package that is not a deno.land URL: the only entry, esm.sh, is
\* the recommended one
C28_Witness ==
    /\ call.fn = "generateCDNImports" /\ status = "returned"
    /\ result.registry = "deno"
    /\ ~StartsWith(call.name, Cdn.httpsDenoLand)
    /\ IsDefined(result.recommended)
    /\ result.recommended[1].provider = "esm.sh"

====
